---- MODULE Spec2Model ----
(***************************************************************************)
(* Verification model of the hospitality POS backend                       *)
(* (cafe-resto-system/backend).  The module models                         *)
(*   - the DraftOrder state machine and lock lease (models/draft_order.py),*)
(*   - the TTL sweeper (scripts/expire_drafts.py),                         *)
(*   - the KDS ticket handlers (api/tickets.py),                           *)
(*   - order creation from a confirmed draft (api/orders.py),              *)
(*   - payments, refunds and shifts (api/payments.py, api/shifts.py),      *)
(*   - QR payment intents and the provider's webhook (api/webhooks.py).    *)
(* Time is an integer number of seconds since the drafts were created.     *)
(***************************************************************************)
EXTENDS Integers, Sequences, FiniteSets, TLC

(***************************************************************************)
(* Bounds of the model                                                     *)
(***************************************************************************)
MaxTime == 9000
MaxVersion == 6

\* Two drafts of one tenant and the two waiters W1, W2 who work on them.
DraftIds == {1, 2}
Users == {1, 2}
\* The clock advances in half-hour steps, which makes an elapsed lease of
\* exactly 1800 seconds (one step) a reachable instant.
TimeSteps == {1800}

(***************************************************************************)
(* Program constants                                                       *)
(***************************************************************************)
LockLeaseSeconds == 1800
DraftTtlSeconds == 7200
InitialDraftVersion == 1

NoUser == 0
NoTime == -1
NoOrder == 0
NoReason == "none"
Reasons == {"out of stock"}

\* DraftStatus enum
DRAFT == "draft"
PENDING == "pending"
CONFIRMED == "confirmed"
REJECTED == "rejected"
EXPIRED == "expired"
DraftStatus == {DRAFT, PENDING, CONFIRMED, REJECTED, EXPIRED}
TerminalDraftStatus == {CONFIRMED, REJECTED, EXPIRED}

\* Reasons carried by the ValueError of the state machine methods; the API
\* error names of the specification are given on the right.
OK == "ok"
NotPendingStatus == "Draft is not in pending status"           \* LockInvalidState
LockedByAnother == "Draft is already locked by another user"   \* LockConflict
NotLockedByUser == "Draft is not locked by this user"          \* LockNotHeld
NotDraftStatus == "draft is not in DRAFT status"
NotExpirable == "not in PENDING status or not expired"

VARIABLES
    now,        \* datetime.utcnow(), seconds
    drafts,     \* draft_orders table: DraftIds -> row
    last,       \* the last draft operation and its outcome
    pre,        \* the draft_orders table as it was before the last operation
    acq,        \* in-flight PATCH /drafts/{id}/acquire requests, per user
    race,       \* the pair of concurrent acquisitions under way, if any
    draftItems, \* draft_line_items: DraftIds -> sequence of menu item names
    tickets,    \* tickets table, in insertion order
    lines,      \* ticket_line_items: per ticket, the fired_status of each item
    tlast,      \* the last ticket request and its response
    treq,       \* ticket requests being served, per worker
    orders,     \* orders table, in insertion order
    olast,      \* the last POST /orders request and its response
    payments,   \* payments table, in insertion order
    intents,    \* payment_intents table, in insertion order
    refunds,    \* refunds table, in insertion order
    shifts,     \* shifts table, in insertion order
    cashEvents, \* cash_drawer_events table, in insertion order
    weblogs,    \* webhook_logs table, in insertion order
    mlast,      \* the last payment, refund, shift or webhook request
    wreq,       \* webhook deliveries being served, per worker
    manager,    \* the ConnectionManager singleton: its six dicts
    sockets,    \* the WebSocket objects: state, peer and frames written
    tasks,      \* the broadcasts under way, per coroutine
    sweep,      \* the sweeper job: its position and the rows it loaded
    users       \* users table: the tenant of each user's auth token

draftVars == <<now, drafts, last, pre>>
lockVars == <<acq, race>>
kitchenVars == <<tickets, lines, tlast, treq>>
orderVars == <<orders, olast>>
moneyVars ==
    <<payments, intents, refunds, shifts, cashEvents, weblogs, mlast, wreq>>
hubVars == <<manager, sockets, tasks>>
otherVars ==
    <<draftItems, kitchenVars, orderVars, moneyVars, hubVars, sweep, users>>

(***************************************************************************)
(* DraftOrder (models/draft_order.py)                                      *)
(***************************************************************************)
NewDraft ==
    [status |-> DRAFT, version |-> InitialDraftVersion,
     locked_by |-> NoUser, locked_at |-> NoTime,
     rejection_reason |-> NoReason, rejected_by |-> NoUser,
     confirmed_by |-> NoUser, order_id |-> NoOrder,
     expires_at |-> DraftTtlSeconds]

can_submit_any_status(d) == TRUE

can_submit(d) == d.status = DRAFT

\* The lease test of can_acquire_lock / is_locked:
\* (utcnow() - locked_at).total_seconds() > 1800
LeaseExpired_inclusive(d, t) ==
    d.locked_at # NoTime /\ t - d.locked_at >= LockLeaseSeconds

LeaseExpired(d, t) == d.locked_at # NoTime /\ t - d.locked_at > LockLeaseSeconds

can_acquire_lock_other_user_allowed(d, user_id, t) ==
    IF d.status # PENDING THEN NotPendingStatus
    ELSE OK

can_acquire_lock(d, user_id, t) ==
    IF d.status # PENDING THEN NotPendingStatus
    ELSE IF d.locked_by # NoUser
         THEN IF LeaseExpired(d, t) THEN OK
              ELSE IF d.locked_by = user_id THEN OK
              ELSE LockedByAnother
         ELSE OK

can_confirm_any_user(d, user_id) ==
    IF d.status # PENDING THEN NotPendingStatus ELSE OK

can_confirm(d, user_id) ==
    IF d.locked_by # user_id THEN NotLockedByUser
    ELSE IF d.status # PENDING THEN NotPendingStatus
    ELSE OK

can_reject(d, user_id) ==
    IF d.locked_by # user_id THEN NotLockedByUser
    ELSE IF d.status # PENDING THEN NotPendingStatus
    ELSE OK

can_expire(d, t) == d.status = PENDING /\ t > d.expires_at

\* Each transition returns the outcome (OK or the ValueError's reason) and the
\* row afterwards; a raised ValueError leaves the row as it was.
Raise(reason, d) == [result |-> reason, draft |-> d]
Done(d) == [result |-> OK, draft |-> d]

transition_to_pending(d) ==
    IF ~can_submit(d) THEN Raise(NotDraftStatus, d)
    ELSE Done([d EXCEPT !.status = PENDING, !.version = @ + 1])

transition_to_confirmed_keep_lock(d, user_id, order_id) ==
    IF can_confirm(d, user_id) # OK THEN Raise(can_confirm(d, user_id), d)
    ELSE Done([d EXCEPT !.status = CONFIRMED, !.confirmed_by = user_id,
                        !.order_id = order_id, !.version = @ + 1])

transition_to_confirmed(d, user_id, order_id) ==
    IF can_confirm(d, user_id) # OK THEN Raise(can_confirm(d, user_id), d)
    ELSE Done([d EXCEPT !.status = CONFIRMED, !.confirmed_by = user_id,
                        !.order_id = order_id,
                        !.locked_by = NoUser, !.locked_at = NoTime,
                        !.version = @ + 1])

transition_to_rejected(d, user_id, reason) ==
    IF can_reject(d, user_id) # OK THEN Raise(can_reject(d, user_id), d)
    ELSE Done([d EXCEPT !.status = REJECTED, !.rejected_by = user_id,
                        !.rejection_reason = reason,
                        !.locked_by = NoUser, !.locked_at = NoTime,
                        !.version = @ + 1])

transition_to_expired_keeps_status(d, t) ==
    IF ~can_expire(d, t) THEN Raise(NotExpirable, d)
    ELSE Done([d EXCEPT !.locked_by = NoUser, !.locked_at = NoTime,
                        !.version = @ + 1])

transition_to_expired(d, t) ==
    IF ~can_expire(d, t) THEN Raise(NotExpirable, d)
    ELSE Done([d EXCEPT !.status = EXPIRED,
                        !.locked_by = NoUser, !.locked_at = NoTime,
                        !.version = @ + 1])

acquire_lock_stale_time(d, user_id, t) ==
    IF can_acquire_lock(d, user_id, t) # OK
    THEN Raise(can_acquire_lock(d, user_id, t), d)
    ELSE Done([d EXCEPT !.locked_by = user_id,
                        !.locked_at = IF d.locked_by = user_id THEN @ ELSE t,
                        !.version = @ + 1])

acquire_lock(d, user_id, t) ==
    IF can_acquire_lock(d, user_id, t) # OK
    THEN Raise(can_acquire_lock(d, user_id, t), d)
    ELSE Done([d EXCEPT !.locked_by = user_id, !.locked_at = t,
                        !.version = @ + 1])

release_lock_no_bump(d, user_id) ==
    IF d.locked_by # user_id THEN Raise(NotLockedByUser, d)
    ELSE Done([d EXCEPT !.locked_by = NoUser, !.locked_at = NoTime])

release_lock(d, user_id) ==
    IF d.locked_by # user_id THEN Raise(NotLockedByUser, d)
    ELSE Done([d EXCEPT !.locked_by = NoUser, !.locked_at = NoTime,
                        !.version = @ + 1])

is_locked(d, t) ==
    IF d.locked_by = NoUser \/ d.locked_at = NoTime THEN FALSE
    ELSE IF t - d.locked_at > LockLeaseSeconds THEN FALSE
    ELSE TRUE

is_expired(d, t) == t > d.expires_at

(***************************************************************************)
(* TTL sweeper (scripts/expire_drafts.py)                                  *)
(***************************************************************************)
\* First query: pending drafts with expires_at < utcnow().
expired_drafts(ds, t) ==
    {i \in DraftIds : ds[i].status = PENDING /\ ds[i].expires_at < t}

\* Second query: pending, locked, locked_at < utcnow() - 30 minutes.
stale_locked_drafts(ds, t) ==
    {i \in DraftIds : /\ ds[i].status = PENDING
                      /\ ds[i].locked_by # NoUser
                      /\ ds[i].locked_at # NoTime
                      /\ ds[i].locked_at < t - LockLeaseSeconds}

AfterExpiry(ds, t) ==
    [i \in DraftIds |->
        IF i \in expired_drafts(ds, t) THEN transition_to_expired(ds[i], t).draft
        ELSE ds[i]]

AfterLockRelease(ds, t) ==
    [i \in DraftIds |->
        IF i \in stale_locked_drafts(ds, t)
        THEN [ds[i] EXCEPT !.locked_by = NoUser, !.locked_at = NoTime,
                           !.version = @ + 1]
        ELSE ds[i]]

\* One run of the job: when the first query finds nothing the function
\* returns before the lock pass.
expire_stale_drafts(ds, t) ==
    IF expired_drafts(ds, t) = {} THEN ds
    ELSE AfterLockRelease(AfterExpiry(ds, t), t)

(***************************************************************************)
(* Operations on drafts                                                    *)
(***************************************************************************)
NoOp == [op |-> "none", user |-> NoUser, d |-> 0, result |-> OK]

Record(op, user, d, result) ==
    /\ last' = [op |-> op, user |-> user, d |-> d, result |-> result]
    /\ pre' = drafts

\* Versions are capped so that the model is finite.
Room(d) == drafts[d].version < MaxVersion

ApplyDraft(op, user, d, outcome) ==
    /\ drafts' = [drafts EXCEPT ![d] = outcome.draft]
    /\ Record(op, user, d, outcome.result)
    /\ UNCHANGED now

Apply(op, user, d, outcome) ==
    /\ ApplyDraft(op, user, d, outcome)
    /\ UNCHANGED <<lockVars, otherVars>>

Tick ==
    /\ \E dt \in TimeSteps :
          /\ now + dt <= MaxTime
          /\ now' = now + dt
    /\ \A u \in Users : acq[u].state # "inflight"
    /\ last' = NoOp
    /\ pre' = drafts
    /\ UNCHANGED <<drafts, lockVars, otherVars>>

Submit(d) ==
    /\ Room(d)
    /\ Apply("submit", NoUser, d, transition_to_pending(drafts[d]))

AcquireLock(u, d) ==
    /\ Room(d)
    /\ Apply("acquire", u, d, acquire_lock(drafts[d], u, now))

ReleaseLock(u, d) ==
    /\ Room(d)
    /\ Apply("release", u, d, release_lock(drafts[d], u))

Confirm(u, d) ==
    /\ Room(d)
    /\ Apply("confirm", u, d, transition_to_confirmed(drafts[d], u, d))

Reject(u, d) ==
    /\ Room(d)
    /\ \E reason \in Reasons :
          Apply("reject", u, d, transition_to_rejected(drafts[d], u, reason))

Expire(d) ==
    /\ Room(d)
    /\ Apply("expire", NoUser, d, transition_to_expired(drafts[d], now))

Sweeper ==
    /\ \A d \in DraftIds : Room(d)
    /\ drafts' = expire_stale_drafts(drafts, now)
    /\ Record("sweep", NoUser, 0, OK)
    /\ UNCHANGED <<now, lockVars, otherVars>>

(***************************************************************************)
(* PATCH /drafts/{id}/acquire: two waiters racing for one draft.  The      *)
(* endpoint performs the acquisition as one compare-and-set on the row     *)
(* (check status, check the lease, set the holder, bump the version).      *)
(***************************************************************************)
Idle == [state |-> "idle", d |-> 0, result |-> OK]
NoRace == [d |-> 0, clean |-> FALSE]

\* Both waiters send their request for draft d at the same moment; `clean'
\* remembers whether d was pending and unlocked at that moment.
StartRace(d) ==
    /\ race = NoRace
    /\ \A u \in Users : acq[u].state = "idle"
    /\ acq' = [u \in Users |-> [state |-> "inflight", d |-> d, result |-> OK]]
    /\ race' = [d |-> d,
                clean |-> drafts[d].status = PENDING
                          /\ drafts[d].locked_by = NoUser]
    /\ UNCHANGED <<draftVars, otherVars>>

HandleAcquire(u) ==
    /\ acq[u].state = "inflight"
    /\ Room(acq[u].d)
    /\ LET outcome == acquire_lock(drafts[acq[u].d], u, now) IN
          /\ ApplyDraft("acquire", u, acq[u].d, outcome)
          /\ acq' = [acq EXCEPT ![u] = [state |-> "done", d |-> @.d,
                                        result |-> outcome.result]]
    /\ UNCHANGED <<race, otherVars>>

EndRace ==
    /\ race # NoRace
    /\ \A u \in Users : acq[u].state = "done"
    /\ acq' = [u \in Users |-> Idle]
    /\ race' = NoRace
    /\ UNCHANGED <<draftVars, otherVars>>

ReleaseIdle(u, d) ==
    /\ race = NoRace
    /\ ReleaseLock(u, d)

(***************************************************************************)
(* Menu set-up: stations, courses and the menu items routed to them        *)
(* (models/menu_item.py, models/kitchen_course.py)                         *)
(***************************************************************************)
NoStation == "none"
NoCourse == "none"
NoRole == "none"
Stations == {"bar", "grill"}
Roles == {"admin", "manager", "waiter", "cashier", "kitchen", "expo"}

KitchenCourses ==
    [drinks |-> [course_number |-> 1, auto_fire_on_confirm |-> TRUE],
     mains  |-> [course_number |-> 2, auto_fire_on_confirm |-> FALSE]]

MenuItems ==
    [beer  |-> [station_id |-> "bar",     course_id |-> "drinks"],
     soda  |-> [station_id |-> "bar",     course_id |-> "drinks"],
     steak |-> [station_id |-> "grill",   course_id |-> "mains"],
     bread |-> [station_id |-> NoStation, course_id |-> "mains"]]

\* Scenario S1: drinks for the bar and a main for the grill.
HappyPathItems == <<"beer", "steak">>
ItemChoices == {<<"beer", "soda">>, <<"bread", "steak">>}

(***************************************************************************)
(* Tickets (models/ticket.py, api/tickets.py)                              *)
(***************************************************************************)
MaxTicketVersion == 2
MaxPrints == 1
\* The tickets table has room for two rows in this model.
TicketIds == {1, 2}
TicketVersions == 0..MaxTicketVersion
\* The roles that send ticket requests in the kitchen specification.
KitchenRoles == {"manager", "waiter"}

\* TicketStatus and FiredStatus enums ("pending" and PENDING are shared with
\* DraftStatus).
\* TicketStatus.NEW (NEW is a reserved word)
NEW_TICKET == "new"
PREPARING == "preparing"
READY == "ready"
IN_PROGRESS == "in_progress"
COMPLETED == "completed"
CANCELLED == "cancelled"
VOIDED == "voided"
TicketStatus ==
    {NEW_TICKET, PENDING, PREPARING, READY, IN_PROGRESS, COMPLETED, CANCELLED,
     VOIDED}
\* The statuses that status-update requests ask for in this model.
RequestedStatus == {NEW_TICKET, READY}
FIRED == "fired"
HELD == "held"
FiredStatus == {PENDING, FIRED, HELD, VOIDED, COMPLETED}

Range(f) == {f[i] : i \in DOMAIN f}

\* A line item is routed when its menu item has a station and a course and
\* the course exists.
Routed(item) ==
    /\ MenuItems[item].station_id # NoStation
    /\ MenuItems[item].course_id # NoCourse
    /\ MenuItems[item].course_id \in DOMAIN KitchenCourses

GroupKey(item) == <<MenuItems[item].station_id, MenuItems[item].course_id>>

\* Keys of the station_course_groups dict, in insertion order.
RECURSIVE station_course_groups(_)
station_course_groups(items) ==
    IF items = <<>> THEN <<>>
    ELSE LET before == station_course_groups(SubSeq(items, 1, Len(items) - 1))
             item == items[Len(items)]
         IN  IF Routed(item) /\ GroupKey(item) \notin Range(before)
             THEN Append(before, GroupKey(item))
             ELSE before

GroupItems(items, key) ==
    SelectSeq(items, LAMBDA item : Routed(item) /\ GroupKey(item) = key)

AutoFire_never(key) == FALSE

AutoFire(key) == KitchenCourses[key[2]].auto_fire_on_confirm

\* The columns kept are those a handler reads or a claim speaks of; the
\* remaining timestamps (completed_at, ready_at, voided_at, ...) are written
\* by the handlers together with `status' and are never read.
NewTicket(d, key, t) ==
    [draft_order_id |-> d, station_id |-> key[1], course_id |-> key[2],
     course_number |-> KitchenCourses[key[2]].course_number,
     status |-> IF AutoFire(key) THEN PENDING ELSE NEW_TICKET,
     fired_at |-> IF AutoFire(key) THEN t ELSE NoTime,
     is_held |-> FALSE, held_reason |-> NoReason, held_at |-> NoTime,
     version |-> 0, print_count |-> 0]

NewTicketLines(items, key) ==
    [i \in 1..Len(GroupItems(items, key)) |->
        IF AutoFire(key) THEN FIRED ELSE PENDING]

\* POST /tickets/generate for draft d with row `draft' and line items `items'.
generate_tickets(draft, d, items, tbl, lns, t) ==
    IF draft.status # CONFIRMED
    THEN [code |-> 400, tickets |-> tbl, lines |-> lns]
    ELSE IF items = <<>>
    THEN [code |-> 400, tickets |-> tbl, lines |-> lns]
    ELSE LET keys == station_course_groups(items) IN
         [code |-> IF keys = <<>> THEN 500 ELSE 200,
          tickets |-> tbl \o [k \in 1..Len(keys) |-> NewTicket(d, keys[k], t)],
          lines |-> lns \o [k \in 1..Len(keys) |->
                               NewTicketLines(items, keys[k])]]

Resp(code, tbl) == [code |-> code, tickets |-> tbl]
Found(tbl, id) == id \in 1..Len(tbl)

\* PATCH /tickets/{id}/bump.  After the commit the handler calls
\* manager.send_ticket_bumped(manager=manager, ...), a keyword the method
\* does not take: the TypeError is caught by `except Exception', the
\* rollback finds nothing to undo and the answer is 500.  No frame is sent.
bump_ticket_unchecked(tbl, id, version, t) ==
    IF ~Found(tbl, id) THEN Resp(404, tbl)
    ELSE Resp(500, [tbl EXCEPT ![id].status = COMPLETED,
                               ![id].version = @ + 1])

bump_ticket(tbl, id, version, t) ==
    IF ~Found(tbl, id) THEN Resp(404, tbl)
    ELSE IF tbl[id].version # version THEN Resp(409, tbl)
    ELSE Resp(500, [tbl EXCEPT ![id].status = COMPLETED,
                               ![id].version = @ + 1])

hold_ticket(tbl, id, version, reason, t) ==
    IF ~Found(tbl, id) THEN Resp(404, tbl)
    ELSE IF tbl[id].version # version THEN Resp(409, tbl)
    ELSE Resp(200, [tbl EXCEPT ![id].is_held = TRUE,
                               ![id].held_reason = reason,
                               ![id].held_at = t,
                               ![id].status = PENDING,
                               ![id].version = @ + 1])

fire_ticket(tbl, id, version, t) ==
    IF ~Found(tbl, id) THEN Resp(404, tbl)
    ELSE IF ~tbl[id].is_held THEN Resp(400, tbl)
    ELSE IF tbl[id].version # version THEN Resp(409, tbl)
    ELSE Resp(200, [tbl EXCEPT ![id].is_held = FALSE,
                               ![id].held_reason = NoReason,
                               ![id].held_at = NoTime,
                               ![id].status = PENDING,
                               ![id].fired_at = t,
                               ![id].version = @ + 1])

\* fire_ticket's loop over the ticket's line items
FiredLines(ls) ==
    [i \in DOMAIN ls |-> IF ls[i] \in {HELD, PENDING} THEN FIRED ELSE ls[i]]

void_ticket(tbl, id, version, role, reason, t) ==
    IF role \notin {"admin", "manager"} THEN Resp(403, tbl)
    ELSE IF ~Found(tbl, id) THEN Resp(404, tbl)
    ELSE IF tbl[id].version # version THEN Resp(409, tbl)
    ELSE Resp(200, [tbl EXCEPT ![id].status = VOIDED,
                               ![id].version = @ + 1])

\* void_ticket's loop over the ticket's line items
VoidedLines(ls) ==
    [i \in DOMAIN ls |-> IF ls[i] \notin {VOIDED, COMPLETED} THEN VOIDED
                         ELSE ls[i]]

update_ticket_status(tbl, id, version, status, t) ==
    IF ~Found(tbl, id) THEN Resp(404, tbl)
    ELSE IF tbl[id].version # version THEN Resp(409, tbl)
    ELSE Resp(200, [tbl EXCEPT ![id].status = status,
                               ![id].version = @ + 1])

reassign_ticket(tbl, id, version, role, new_station_id) ==
    IF role \notin {"admin", "manager"} THEN Resp(403, tbl)
    ELSE IF ~Found(tbl, id) THEN Resp(404, tbl)
    ELSE IF new_station_id \notin Stations THEN Resp(404, tbl)
    ELSE IF tbl[id].version # version THEN Resp(409, tbl)
    ELSE Resp(200, [tbl EXCEPT ![id].station_id = new_station_id,
                               ![id].version = @ + 1])

reprint_ticket_any_role(tbl, id, role) ==
    IF ~Found(tbl, id) THEN Resp(404, tbl)
    ELSE Resp(200, [tbl EXCEPT ![id].print_count = @ + 1])

reprint_ticket(tbl, id, role) ==
    IF role \notin {"admin", "manager", "kitchen"} THEN Resp(403, tbl)
    ELSE IF ~Found(tbl, id) THEN Resp(404, tbl)
    ELSE Resp(200, [tbl EXCEPT ![id].print_count = @ + 1])

\* DELETE /tickets/line-items/{id}: line item k of ticket id
void_line_item(lns, id, k, role) ==
    IF role \notin {"admin", "manager"} THEN [code |-> 403, lines |-> lns]
    ELSE IF ~(id \in 1..Len(lns) /\ k \in 1..Len(lns[id]))
    THEN [code |-> 404, lines |-> lns]
    ELSE [code |-> 200, lines |-> [lns EXCEPT ![id][k] = VOIDED]]

(***************************************************************************)
(* Ticket requests, served one at a time                                   *)
(***************************************************************************)
NoTicketOp == [op |-> "none", id |-> 0, code |-> 0, role |-> NoRole,
               stale |-> FALSE]
IdleRequest == [pc |-> "idle", op |-> "none", id |-> 0, version |-> 0,
                role |-> NoRole, snap |-> <<>>, overlap |-> FALSE, code |-> 0]
Workers == {1, 2}

NoKitchen ==
    /\ tickets = <<>>
    /\ lines = <<>>
    /\ tlast = NoTicketOp
    /\ treq = [w \in Workers |-> IdleRequest]

\* The model is kept finite by refusing to take a step beyond these caps.
WithinCaps(tbl) ==
    /\ Len(tbl) <= Cardinality(TicketIds)
    /\ \A i \in 1..Len(tbl) :
          tbl[i].version <= MaxTicketVersion /\ tbl[i].print_count <= MaxPrints

\* A client echoes the version it last saw: the stored one or the one before
\* (the next one for a ticket that was never updated).
EchoedVersions(id) ==
    IF ~Found(tickets, id) THEN {0}
    ELSE {v \in TicketVersions :
             \/ v = tickets[id].version
             \/ v = tickets[id].version - 1
             \/ tickets[id].version = 0 /\ v = 1}

\* The echoed version differs from the stored one.
Stale(id, version) == Found(tickets, id) /\ tickets[id].version # version

Respond(op, id, role, stale, code, tbl, lns) ==
    /\ WithinCaps(tbl)
    /\ tickets' = tbl
    /\ lines' = lns
    /\ tlast' = [op |-> op, id |-> id, code |-> code, role |-> role,
                 stale |-> stale]
    /\ UNCHANGED <<draftVars, lockVars, draftItems, users, sweep, hubVars, treq, orderVars, moneyVars>>

GenerateTickets(d) ==
    LET r == generate_tickets(drafts[d], d, draftItems[d], tickets, lines, now)
    IN  Respond("generate", d, NoRole, FALSE, r.code, r.tickets, r.lines)

BumpTicket(id, version) ==
    LET r == bump_ticket(tickets, id, version, now)
    IN  Respond("bump", id, NoRole, Stale(id, version), r.code, r.tickets, lines)

HoldTicket(id, version) ==
    \E reason \in Reasons :
        LET r == hold_ticket(tickets, id, version, reason, now)
        IN  Respond("hold", id, NoRole, Stale(id, version), r.code, r.tickets,
                    lines)

FireTicket(id, version) ==
    LET r == fire_ticket(tickets, id, version, now)
    IN  Respond("fire", id, NoRole, Stale(id, version), r.code, r.tickets,
                IF r.code = 200
                THEN [lines EXCEPT ![id] = FiredLines(@)] ELSE lines)

VoidTicket(id, version, role) ==
    \E reason \in Reasons :
        LET r == void_ticket(tickets, id, version, role, reason, now)
        IN  Respond("void", id, role, Stale(id, version), r.code, r.tickets,
                    IF r.code = 200
                    THEN [lines EXCEPT ![id] = VoidedLines(@)] ELSE lines)

UpdateTicketStatus(id, version, status) ==
    LET r == update_ticket_status(tickets, id, version, status, now)
    IN  Respond("status", id, NoRole, Stale(id, version), r.code, r.tickets,
                lines)

ReassignTicket(id, version, role, new_station_id) ==
    LET r == reassign_ticket(tickets, id, version, role, new_station_id)
    IN  Respond("reassign", id, role, Stale(id, version), r.code, r.tickets,
                lines)

ReprintTicket(id, role) ==
    LET r == reprint_ticket(tickets, id, role)
    IN  Respond("reprint", id, role, FALSE, r.code, r.tickets, lines)

VoidLineItem(id, k, role) ==
    LET r == void_line_item(lines, id, k, role)
    IN  Respond("void_line_item", id, role, FALSE, r.code, tickets, r.lines)

\* The way to a confirmed draft: the guest submits, a waiter takes the draft
\* and confirms it.
PlaceOrder(d) == can_submit(drafts[d]) /\ Submit(d)
TakeOrder(u, d) ==
    /\ drafts[d].status = PENDING
    /\ drafts[d].locked_by = NoUser
    /\ AcquireLock(u, d)
ConfirmOrder(u, d) == can_confirm(drafts[d], u) = OK /\ Confirm(u, d)

(***************************************************************************)
(* Ticket requests served in parallel                                      *)
(*                                                                         *)
(* A handler reads the ticket row into its session, compares the echoed    *)
(* version with the row it read, assigns the new values and commits; the   *)
(* UPDATE the commit sends carries the columns the handler changed and     *)
(* names the row by its primary key only.  A second handler may read the   *)
(* same row between the read and the commit of the first.                  *)
(***************************************************************************)
\* The row in the table after a session that loaded `loaded' and changed it
\* to `modified' commits over the row `stored'.
Flush(loaded, modified, stored) ==
    [f \in DOMAIN stored |->
        IF modified[f] # loaded[f] THEN modified[f] ELSE stored[f]]

\* The requests that race, and the role that sends them.
RaceOps == {"bump", "void"}
RaceRole(op) == IF op = "void" THEN "manager" ELSE NoRole

\* The handler of request q, run on the rows the session has read.
Handler(q, t) ==
    IF q.op = "bump" THEN bump_ticket(q.snap, q.id, q.version, t)
    ELSE void_ticket(q.snap, q.id, q.version, q.role,
                     CHOOSE reason \in Reasons : TRUE, t)

\* session.exec(select(Ticket)...).first()
LoadTicket(w, op, id, version) ==
    /\ treq[w].pc = "idle"
    /\ treq' = [treq EXCEPT ![w] =
                    [pc |-> "loaded", op |-> op, id |-> id,
                     version |-> version, role |-> RaceRole(op),
                     snap |-> tickets,
                     overlap |-> \E x \in Workers \ {w} :
                                    treq[x].pc = "loaded",
                     code |-> 0]]
    /\ UNCHANGED <<draftVars, lockVars, draftItems, users, sweep, hubVars, tickets, lines, tlast,
                   orderVars, moneyVars>>

\* The rest of the handler: the checks, the assignments and session.commit()
CommitTicket(w) ==
    LET q == treq[w]
        r == Handler(q, now)
        tbl == IF r.tickets # q.snap
               THEN [tickets EXCEPT ![q.id] =
                        Flush(q.snap[q.id], r.tickets[q.id], @)]
               ELSE tickets
        lns == IF r.code = 200 /\ q.op = "void"
               THEN [lines EXCEPT ![q.id] = VoidedLines(@)] ELSE lines
    IN  /\ q.pc = "loaded"
        /\ WithinCaps(tbl)
        /\ tickets' = tbl
        /\ lines' = lns
        /\ treq' = [treq EXCEPT ![w] =
                        [q EXCEPT !.pc = "done", !.code = r.code,
                                  !.snap = <<>>]]
        /\ UNCHANGED <<draftVars, lockVars, draftItems, users, sweep, hubVars, tlast, orderVars,
                       moneyVars>>

(***************************************************************************)
(* Orders (api/orders.py)                                                  *)
(***************************************************************************)
NoOrderOp == [op |-> "none", d |-> 0, code |-> 0]

NoOrders ==
    /\ orders = <<>>
    /\ olast = NoOrderOp

\* select(Order).where(Order.draft_order_id == ...).first()
existing_order(tbl, d) == \E i \in 1..Len(tbl) : tbl[i].draft_order_id = d

\* POST /orders for draft d.  Building the Order reads draft.subtotal and
\* the other money columns, which DraftOrder does not have: the handler
\* raises AttributeError before session.add and the request ends in a 500.
create_order(draft, d, tbl) ==
    IF draft.status # CONFIRMED THEN [code |-> 400, orders |-> tbl]
    ELSE IF existing_order(tbl, d) THEN [code |-> 400, orders |-> tbl]
    ELSE [code |-> 500, orders |-> tbl]

CreateOrder(d) ==
    LET r == create_order(drafts[d], d, orders)
    IN  /\ orders' = r.orders
        /\ olast' = [op |-> "create", d |-> d, code |-> r.code]
        /\ UNCHANGED <<draftVars, lockVars, draftItems, users, sweep, hubVars, kitchenVars, moneyVars>>

\* Order.can_transition_to returns a (bool, message) pair, which is true in
\* `if not self.can_transition_to(...)', so Order.transition_to_completed
\* never raises.
order_transition_to_completed(order) == [order EXCEPT !.status = COMPLETED]

\* POST /orders/{order_id}/complete
complete_order(tbl, order_id) ==
    IF order_id \notin 1..Len(tbl) THEN [code |-> 404, orders |-> tbl]
    ELSE [code |-> 200,
          orders |-> [tbl EXCEPT ![order_id] =
                         order_transition_to_completed(@)]]

\* olast.d is the order's id here.
CompleteOrder(order_id) ==
    LET r == complete_order(orders, order_id)
    IN  /\ orders' = r.orders
        /\ olast' = [op |-> "complete", d |-> order_id, code |-> r.code]
        /\ UNCHANGED <<draftVars, lockVars, draftItems, users, sweep, hubVars, kitchenVars, moneyVars>>

(***************************************************************************)
(* Payments, refunds, shifts and the cash drawer (api/payments.py,         *)
(* api/shifts.py)                                                          *)
(*                                                                         *)
(* The handlers are translated statement by statement.  Names a module     *)
(* uses without importing them (get_current_user, ShiftStatus, ...) are    *)
(* read as the definitions of the same name elsewhere in the repository,   *)
(* and create_task(...) as a broadcast that changes none of the tables.    *)
(***************************************************************************)
\* User.tenant_id, which get_current_user hands to the handlers.  The house
\* of the other sections is one tenant's.
Tenants == {1, 2}
OneTenant == [u \in Users |-> [tenant_id |-> 1]]

\* current_user: user 1 is a waiter, every other user a manager.
RoleOf == [u \in Users |-> IF u = 1 THEN "waiter" ELSE "manager"]
ManagerRoles == {"admin", "manager"}

\* Rows the tables have room for in this model.
PaymentIds == {1, 2}
MaxPaymentVersion == 2
RefundIds == {1}
ShiftIds == {1}
CashEventIds == {1, 2}

\* Order(total_amount=Decimal("100.00")) and the amounts requests carry.
OrderTotal == 100
Amounts == {50, 100}
OpeningBalance == 100
DrawerAmounts == {50}

\* OrderStatus, PaymentStatus, PaymentMethod, RefundStatus, ShiftStatus and
\* CashDrawerEventType ("pending", "in_progress", "completed", "cancelled"
\* and "voided" are shared with the enums above).
PARTIALLY_PAID == "partially_paid"
PAID == "paid"
PROCESSING == "processing"
FAILED == "failed"
REFUNDED == "refunded"
CASH == "cash"
CARD == "card"
TERMINAL == "terminal"
QR == "qr"
SPLIT == "split"
REQUESTED == "requested"
OPENING == "opening"
ACTIVE == "active"
CLOSING == "closing"
CLOSED == "closed"
RECONCILED == "reconciled"
CASH_DROP == "cash_drop"
TIP_PAYOUT == "tip_payout"
CASH_ADJUSTMENT == "cash_adjustment"
PAYMENT_IN == "payment_in"

NoShift == 0
NoIntent == 0
NoPayment == 0
NoMoneyOp == [op |-> "none", id |-> 0, user |-> NoUser, role |-> NoRole,
              code |-> 0, result |-> "none", status |-> "none"]
IdleDelivery == [pc |-> "idle", ref |-> 0, status |-> "none",
                 intent_id |-> NoIntent, intent |-> <<>>,
                 payment |-> NoPayment]

NoMoney ==
    /\ payments = <<>>
    /\ intents = <<>>
    /\ refunds = <<>>
    /\ shifts = <<>>
    /\ cashEvents = <<>>
    /\ weblogs = <<>>
    /\ mlast = NoMoneyOp
    /\ wreq = [w \in Workers |-> IdleDelivery]

\* An Optional[Decimal] column: None, or the value it holds.
None == <<>>
Some(v) == <<v>>

\* The cash a server counts in the drawer at closing.
CashCounts == {100, 200}

\* Shift(server_id=...): status defaults to opening.
NewShift(server_id) ==
    [server_id |-> server_id, status |-> OPENING, opening_balance |-> 0,
     cash_sales |-> 0, closing_cash_count |-> None, expected_cash |-> None,
     cash_variance |-> None, version |-> 1]

\* select(Shift).where(server_id == ..., status == ACTIVE).first()
active_shift(shs, server_id) ==
    LET found == {i \in 1..Len(shs) :
                    shs[i].server_id = server_id /\ shs[i].status = ACTIVE}
    IN  IF found = {} THEN NoShift
        ELSE CHOOSE i \in found : \A j \in found : i <= j

\* POST /shifts/open
open_shift(shs, server_id, opening_balance) ==
    IF active_shift(shs, server_id) # NoShift
    THEN [code |-> 400, shifts |-> shs]
    ELSE [code |-> 201,
          shifts |-> Append(shs, [NewShift(server_id) EXCEPT
                                     !.status = ACTIVE,
                                     !.opening_balance = opening_balance])]

NewPayment(order_id, method, amount) ==
    [order_id |-> order_id, payment_intent_id |-> NoIntent,
     method |-> method, amount |-> amount, status |-> PENDING, version |-> 1]

\* POST /payments/process by `user'.  The Payment is committed as pending
\* before the method is looked at.
process_payment(ords, pays, shs, evs, order_id, amount, method, user) ==
    LET same == [code |-> 0, payments |-> pays, shifts |-> shs,
                 cashEvents |-> evs]
        id == Len(pays) + 1
        pending == Append(pays, NewPayment(order_id, method, amount))
        shift == active_shift(shs, user)
    IN  IF order_id \notin 1..Len(ords) THEN [same EXCEPT !.code = 404]
        ELSE IF ords[order_id].status \notin {PENDING, IN_PROGRESS}
        THEN [same EXCEPT !.code = 400]
        ELSE IF method = CASH
        THEN [code |-> 201,
              payments |-> [pending EXCEPT ![id].status = COMPLETED],
              shifts |-> IF shift = NoShift THEN shs
                         ELSE [shs EXCEPT ![shift].cash_sales = @ + amount],
              cashEvents |->
                  Append(evs, [shift_id |-> shift, payment_id |-> id,
                               event_type |-> PAYMENT_IN, amount |-> amount,
                               balance_after |-> amount])]
        ELSE IF method = TERMINAL
        THEN [same EXCEPT !.code = 201,
                          !.payments = [pending EXCEPT
                                           ![id].status = PROCESSING]]
        ELSE IF method \in {QR, CARD}
        THEN [same EXCEPT !.code = 201, !.payments = pending]
        ELSE [same EXCEPT !.code = 400, !.payments = pending]

\* PATCH /payments/{id}
update_payment(pays, id, version, status) ==
    IF id \notin 1..Len(pays) THEN [code |-> 404, payments |-> pays]
    ELSE IF pays[id].version # version THEN [code |-> 409, payments |-> pays]
    ELSE [code |-> 200,
          payments |-> [pays EXCEPT
                           ![id].status = IF status \in {COMPLETED, FAILED}
                                          THEN status ELSE @,
                           ![id].version = @ + 1]]

\* POST /payments/{id}/refund by a user of any role.  The Refund is
\* committed; the return statement then names created_payments, which is
\* defined nowhere, and the response is a 500.
process_refund(pays, rfs, id, amount, user) ==
    IF id \notin 1..Len(pays) THEN [code |-> 404, refunds |-> rfs]
    ELSE IF pays[id].status # COMPLETED THEN [code |-> 400, refunds |-> rfs]
    ELSE IF \E i \in 1..Len(rfs) :
                rfs[i].original_payment_id = id /\ rfs[i].status = COMPLETED
    THEN [code |-> 400, refunds |-> rfs]
    ELSE [code |-> 500,
          refunds |-> Append(rfs, [original_payment_id |-> id,
                                   order_id |-> pays[id].order_id,
                                   amount |-> amount, created_by |-> user,
                                   status |-> REQUESTED])]

\* The sign cash_drop, tip_payout and cash_adjustment give the amount.
Signed(event_type, amount) ==
    IF event_type = CASH_ADJUSTMENT THEN amount ELSE 0 - amount

\* CashDrawerEvent.get_amount_signed, applied to the amount as it is stored
get_amount_signed(event) ==
    IF event.event_type = PAYMENT_IN THEN event.amount
    ELSE IF event.event_type \in {CASH_DROP, TIP_PAYOUT}
    THEN 0 - event.amount
    ELSE event.amount

\* POST /shifts/{id}/cash-drop, /tip-payout and /adjustment
drawer_event(shs, evs, id, event_type, amount, role) ==
    IF role \notin ManagerRoles THEN [code |-> 403, cashEvents |-> evs]
    ELSE IF id \notin 1..Len(shs) THEN [code |-> 404, cashEvents |-> evs]
    ELSE IF shs[id].status # ACTIVE THEN [code |-> 400, cashEvents |-> evs]
    ELSE [code |-> 201,
          cashEvents |->
              Append(evs, [shift_id |-> id, payment_id |-> NoPayment,
                           event_type |-> event_type,
                           amount |-> Signed(event_type, amount),
                           balance_after |->
                               shs[id].opening_balance + shs[id].cash_sales
                                   + Signed(event_type, amount)])]

\* The tables after a request, its response recorded.
Settle(op, id, user, code, pays, rfs, shs, evs) ==
    /\ Len(pays) <= Cardinality(PaymentIds)
    /\ Len(rfs) <= Cardinality(RefundIds)
    /\ Len(shs) <= Cardinality(ShiftIds)
    /\ Len(evs) <= Cardinality(CashEventIds)
    /\ \A i \in 1..Len(pays) : pays[i].version <= MaxPaymentVersion
    /\ payments' = pays
    /\ refunds' = rfs
    /\ shifts' = shs
    /\ cashEvents' = evs
    /\ mlast' = [NoMoneyOp EXCEPT !.op = op, !.id = id, !.user = user,
                                  !.role = RoleOf[user], !.code = code]
    /\ UNCHANGED <<draftVars, lockVars, draftItems, users, sweep, hubVars, kitchenVars, orderVars,
                   intents, weblogs, wreq>>

OpenShift(user) ==
    LET r == open_shift(shifts, user, OpeningBalance)
    IN  Settle("open_shift", Len(r.shifts), user, r.code, payments, refunds,
               r.shifts, cashEvents)

ProcessPayment(user, order_id, amount, method) ==
    LET r == process_payment(orders, payments, shifts, cashEvents, order_id,
                             amount, method, user)
    IN  Settle("process_payment", order_id, user, r.code, r.payments, refunds,
               r.shifts, r.cashEvents)

UpdatePayment(user, id, version, status) ==
    LET r == update_payment(payments, id, version, status)
    IN  Settle("update_payment", id, user, r.code, r.payments, refunds,
               shifts, cashEvents)

ProcessRefund(user, id, amount) ==
    LET r == process_refund(payments, refunds, id, amount, user)
    IN  Settle("refund", id, user, r.code, payments, r.refunds, shifts,
               cashEvents)

DrawerEvent(user, id, event_type, amount) ==
    LET r == drawer_event(shifts, cashEvents, id, event_type, amount,
                          RoleOf[user])
    IN  Settle(event_type, id, user, r.code, payments, refunds, shifts,
               r.cashEvents)

\* Shift(tenant_id=current_user.tenant_id, server_id=...) in open_shift: a
\* shift belongs to the tenant of the server who opened it.
shift_tenant_id(shift) == users[shift.server_id].tenant_id

\* GET /shifts/{id}
get_shift(shs, id, tenant_id) ==
    IF id \notin 1..Len(shs) THEN 404
    ELSE IF shift_tenant_id(shs[id]) # tenant_id THEN 403
    ELSE 200

GetShift(user, id) ==
    Settle("get_shift", id, user,
           get_shift(shifts, id, users[user].tenant_id), payments, refunds,
           shifts, cashEvents)

(***************************************************************************)
(* The Shift state machine (models/shift.py) and the handlers that close   *)
(* and reconcile a shift (api/shifts.py)                                   *)
(***************************************************************************)
\* valid_transitions of Shift.can_transition_to
shift_valid_transitions(status) ==
    CASE status = OPENING -> {ACTIVE, CLOSED}
      [] status = ACTIVE -> {CLOSING, CLOSED}
      [] status = CLOSING -> {CLOSED, RECONCILED}
      [] status = CLOSED -> {RECONCILED}
      [] OTHER -> {}

\* Shift.can_transition_to(new_status)[0]
shift_can_transition_to(shift, new_status) ==
    new_status \in shift_valid_transitions(shift.status)

ValueError(shift) == [result |-> "ValueError", shift |-> shift]
Returned(shift) == [result |-> "ok", shift |-> shift]

start_shift(shift, opening_balance) ==
    IF shift.status # OPENING THEN ValueError(shift)
    ELSE Returned([shift EXCEPT !.opening_balance = opening_balance,
                                !.status = ACTIVE])

end_shift_unguarded(shift) ==
    Returned([shift EXCEPT !.status = CLOSED])

end_shift(shift) ==
    IF ~shift_can_transition_to(shift, CLOSED) THEN ValueError(shift)
    ELSE Returned([shift EXCEPT !.status = CLOSED])

begin_closing(shift) ==
    IF ~shift_can_transition_to(shift, CLOSING) THEN ValueError(shift)
    ELSE Returned([shift EXCEPT !.status = CLOSING])

record_cash_count(shift, closing_cash_count) ==
    IF shift.status \notin {CLOSING, CLOSED} THEN ValueError(shift)
    ELSE LET expected_cash == shift.opening_balance + shift.cash_sales
         IN  Returned([shift EXCEPT
                          !.closing_cash_count = Some(closing_cash_count),
                          !.expected_cash = Some(expected_cash),
                          !.cash_variance =
                              Some(closing_cash_count - expected_cash)])

reconcile(shift) ==
    IF ~shift_can_transition_to(shift, RECONCILED) THEN ValueError(shift)
    ELSE IF shift.closing_cash_count = None THEN ValueError(shift)
    ELSE Returned([shift EXCEPT !.status = RECONCILED])

\* PATCH /shifts/{id}: a ValueError of begin_closing is caught nowhere.
update_shift(shs, id, version, closing_cash_count) ==
    IF id \notin 1..Len(shs) THEN [code |-> 404, shifts |-> shs]
    ELSE IF shs[id].version # version THEN [code |-> 409, shifts |-> shs]
    ELSE IF begin_closing(shs[id]).result # "ok"
    THEN [code |-> 500, shifts |-> shs]
    ELSE [code |-> 200,
          shifts |-> [shs EXCEPT
                         ![id] = [begin_closing(shs[id]).shift EXCEPT
                                     !.closing_cash_count =
                                         IF closing_cash_count # None
                                         THEN closing_cash_count ELSE @,
                                     !.version = @ + 1]]]

\* POST /shifts/{id}/close: the handler calls shift.end_shift() without the
\* closed_by_id the method requires, which is a TypeError before the commit.
close_shift(shs, id, closing_cash_count) ==
    IF id \notin 1..Len(shs) THEN [code |-> 404, shifts |-> shs]
    ELSE IF shs[id].status \notin {ACTIVE, CLOSING}
    THEN [code |-> 400, shifts |-> shs]
    ELSE [code |-> 500, shifts |-> shs]

\* POST /shifts/{id}/reconcile: shift.reconcile() is called without the
\* reconciled_by_id the method requires.
reconcile_shift(shs, id) ==
    IF id \notin 1..Len(shs) THEN [code |-> 404, shifts |-> shs]
    ELSE IF shs[id].status # CLOSED THEN [code |-> 400, shifts |-> shs]
    ELSE [code |-> 500, shifts |-> shs]

UpdateShift(user, id, version, closing_cash_count) ==
    LET r == update_shift(shifts, id, version, closing_cash_count)
    IN  Settle("update_shift", id, user, r.code, payments, refunds, r.shifts,
               cashEvents)

CloseShift(user, id, closing_cash_count) ==
    LET r == close_shift(shifts, id, closing_cash_count)
    IN  Settle("close_shift", id, user, r.code, payments, refunds, r.shifts,
               cashEvents)

ReconcileShift(user, id) ==
    LET r == reconcile_shift(shifts, id)
    IN  Settle("reconcile_shift", id, user, r.code, payments, refunds,
               r.shifts, cashEvents)

\* A method of shift `id' called with the arguments it requires; r is what
\* it raised or returned.
Called(op, id, r) ==
    /\ id \in 1..Len(shifts)
    /\ shifts' = [shifts EXCEPT ![id] = r.shift]
    /\ mlast' = [NoMoneyOp EXCEPT !.op = op, !.id = id, !.result = r.result]
    /\ UNCHANGED <<draftVars, lockVars, draftItems, users, sweep, hubVars, kitchenVars, orderVars,
                   payments, intents, refunds, cashEvents, weblogs, wreq>>

StartShift(id, opening_balance) ==
    Called("start_shift", id, start_shift(shifts[id], opening_balance))

EndShift(id) == Called("end_shift", id, end_shift(shifts[id]))

BeginClosing(id) == Called("begin_closing", id, begin_closing(shifts[id]))

RecordCashCount(id, closing_cash_count) ==
    Called("record_cash_count", id,
           record_cash_count(shifts[id], closing_cash_count))

Reconcile(id) == Called("reconcile", id, reconcile(shifts[id]))

(***************************************************************************)
(* POST /shifts/open served by parallel workers                            *)
(***************************************************************************)
\* The select of the server's active shift; wreq[w].ref is the server.
OpenShiftCheck(w, server_id) ==
    /\ wreq[w].pc = "idle"
    /\ IF active_shift(shifts, server_id) # NoShift
       THEN /\ mlast' = [NoMoneyOp EXCEPT !.op = "open_shift",
                                          !.user = server_id,
                                          !.role = RoleOf[server_id],
                                          !.code = 400]
            /\ UNCHANGED wreq
       ELSE /\ wreq' = [wreq EXCEPT ![w] = [IdleDelivery EXCEPT
                                               !.pc = "no_active_shift",
                                               !.ref = server_id]]
            /\ UNCHANGED mlast
    /\ UNCHANGED <<draftVars, lockVars, draftItems, users, sweep, hubVars, kitchenVars, orderVars,
                   payments, intents, refunds, shifts, cashEvents, weblogs>>

\* The insert and the commit of the new shift.
OpenShiftInsert(w) ==
    /\ wreq[w].pc = "no_active_shift"
    /\ Len(shifts) < Cardinality(Workers)
    /\ shifts' = Append(shifts, [NewShift(wreq[w].ref) EXCEPT
                                    !.status = ACTIVE,
                                    !.opening_balance = OpeningBalance])
    /\ mlast' = [NoMoneyOp EXCEPT !.op = "open_shift", !.id = Len(shifts'),
                                  !.user = wreq[w].ref,
                                  !.role = RoleOf[wreq[w].ref],
                                  !.code = 201]
    /\ wreq' = [wreq EXCEPT ![w] = IdleDelivery]
    /\ UNCHANGED <<draftVars, lockVars, draftItems, users, sweep, hubVars, kitchenVars, orderVars,
                   payments, intents, refunds, cashEvents, weblogs>>

(***************************************************************************)
(* QR payment intents and the Mercado Pago webhook (api/webhooks.py)       *)
(***************************************************************************)
\* Intents the billing can hold, and the tips a guest adds.
IntentIds == {1}
Tips == {0, 15}

\* external_reference values of the notifications: the idempotency key of
\* intent i is i, the last one is the key of no intent.
Refs == {1, 2}

\* data.status of a notification, and what the provider's API answers when
\* the handler asks it about a status it does not know.
DeliveryStatuses == {"paid", "cancelled", "expired", "opened"}
\* What mp_service.get_order_status answers; "error" stands for the call
\* raising, which the handler catches and logs.
ApiStatuses == {"paid", "opened", "error"}

\* POST /payments/qr-intent
create_qr_payment_intent(ords, its, order_id, tip_amount, user) ==
    IF order_id \notin 1..Len(ords) THEN [code |-> 404, intents |-> its]
    ELSE IF ords[order_id].status
                \notin {PENDING, IN_PROGRESS, PARTIALLY_PAID}
    THEN [code |-> 400, intents |-> its]
    ELSE [code |-> 201,
          intents |->
              Append(its, [order_id |-> order_id,
                           amount |-> ords[order_id].total_amount
                                          + tip_amount,
                           method |-> QR, status |-> PENDING,
                           idempotency_key |-> Len(its) + 1,
                           version |-> 1])]

\* PaymentIntent.can_transition_to returns a (bool, message) pair, which is
\* true in `if not self.can_transition_to(...)' whatever it says, so the
\* transitions below never raise.
transition_to_completed(intent) ==
    [intent EXCEPT !.status = COMPLETED, !.version = @ + 1]

transition_to_cancelled(intent) ==
    [intent EXCEPT !.status = CANCELLED, !.version = @ + 1]

transition_to_failed(intent) ==
    [intent EXCEPT !.status = FAILED, !.version = @ + 1]

\* select(WebhookLog).where(external_reference == ..., provider == ...)
existing_log(logs, ref) ==
    \E i \in 1..Len(logs) :
        logs[i].external_reference = ref /\ logs[i].provider = "mercadopago"

\* select(PaymentIntent).where(idempotency_key == ..., method == "qr").first()
intent_of(its, ref) ==
    LET found == {i \in 1..Len(its) :
                     its[i].idempotency_key = ref /\ its[i].method = QR}
    IN  IF found = {} THEN NoIntent
        ELSE CHOOSE i \in found : \A j \in found : i <= j

\* select(Payment).where(payment_intent_id == ..., method == "qr").first()
payment_of(pays, intent_id) ==
    LET found == {i \in 1..Len(pays) :
                     pays[i].payment_intent_id = intent_id
                         /\ pays[i].method = QR}
    IN  IF found = {} THEN NoPayment
        ELSE CHOOSE i \in found : \A j \in found : i <= j

RECURSIVE PaidUpTo(_, _, _)
PaidUpTo(pays, order_id, n) ==
    IF n = 0 THEN 0
    ELSE PaidUpTo(pays, order_id, n - 1)
             + (IF pays[n].order_id = order_id /\ pays[n].status = COMPLETED
                THEN pays[n].amount ELSE 0)

\* The sum of the amounts of the order's completed payments.
calculate_order_paid_amount(pays, order_id) ==
    PaidUpTo(pays, order_id, Len(pays))

\* process_successful_payment for the intent row `intent' the handler loaded
\* as intent number i, and the payment p it found for it.
process_successful_payment(ords, pays, its, i, intent, p) ==
    LET paid == IF p # NoPayment THEN [pays EXCEPT ![p].status = COMPLETED]
                ELSE Append(pays, [order_id |-> intent.order_id,
                                   payment_intent_id |-> i, method |-> QR,
                                   amount |-> intent.amount,
                                   status |-> COMPLETED, version |-> 1])
        o == intent.order_id
    IN  [payments |-> paid,
         intents |-> [its EXCEPT ![i] = transition_to_completed(intent)],
         orders |->
             IF o \in 1..Len(ords) /\ ords[o].status # PAID
             THEN [ords EXCEPT ![o].status =
                      IF calculate_order_paid_amount(paid, o)
                             >= ords[o].total_amount
                      THEN PAID ELSE IN_PROGRESS]
             ELSE ords]

\* process_cancelled_payment and process_failed_payment
\* `moved' is the intent after transition_to_cancelled or
\* transition_to_failed.
process_unsuccessful_payment(ords, pays, its, i, moved, p) ==
    [payments |-> IF p # NoPayment THEN [pays EXCEPT ![p].status = FAILED]
                  ELSE pays,
     intents |-> [its EXCEPT ![i] = moved],
     orders |-> ords]

\* mercadopago_webhook from "Process based on status" up to the log row:
\* what the branch it takes commits, and whether the handler goes on to log.
process_notification(ords, pays, its, i, intent, p, status, api) ==
    LET done(r) == [logs |-> TRUE, orders |-> r.orders,
                    payments |-> r.payments, intents |-> r.intents]
    IN  IF status \in {"paid", "closed"}
        THEN done(process_successful_payment(ords, pays, its, i, intent, p))
        ELSE IF status = "cancelled"
        THEN done(process_unsuccessful_payment(
                      ords, pays, its, i, transition_to_cancelled(intent), p))
        ELSE IF status = "expired"
        THEN done(process_unsuccessful_payment(
                      ords, pays, its, i, transition_to_failed(intent), p))
        ELSE IF api = "paid"
        THEN done(process_successful_payment(ords, pays, its, i, intent, p))
        ELSE [logs |-> api = "error", orders |-> ords, payments |-> pays,
              intents |-> its]

\* "Log webhook as processed"
webhook_log(logs, ref, status) ==
    Append(logs, [external_reference |-> ref, provider |-> "mercadopago",
                  status |-> status])

handle_notification(ords, pays, its, logs, i, intent, p, ref, status, api) ==
    LET r == process_notification(ords, pays, its, i, intent, p, status, api)
    IN  [result |-> "processed", orders |-> r.orders,
         payments |-> r.payments, intents |-> r.intents,
         weblogs |-> IF r.logs THEN webhook_log(logs, ref, status) ELSE logs]

mercadopago_webhook_unchecked(ords, pays, its, logs, ref, status, api) ==
    LET i == intent_of(its, ref)
    IN  IF i = NoIntent
        THEN [result |-> "error", orders |-> ords, payments |-> pays,
              intents |-> its, weblogs |-> logs]
        ELSE handle_notification(ords, pays, its, logs, i, its[i],
                                 payment_of(pays, i), ref, status, api)

\* POST /webhooks/mercadopago, served in one piece.
mercadopago_webhook(ords, pays, its, logs, ref, status, api) ==
    LET same(result) == [result |-> result, orders |-> ords,
                         payments |-> pays, intents |-> its,
                         weblogs |-> logs]
        i == intent_of(its, ref)
    IN  IF existing_log(logs, ref) THEN same("duplicate")
        ELSE IF i = NoIntent THEN same("error")
        ELSE handle_notification(ords, pays, its, logs, i, its[i],
                                 payment_of(pays, i), ref, status, api)

CreateQrIntent(user, order_id, tip_amount) ==
    LET r == create_qr_payment_intent(orders, intents, order_id, tip_amount,
                                      user)
    IN  /\ Len(r.intents) <= Cardinality(IntentIds)
        /\ intents' = r.intents
        /\ mlast' = [NoMoneyOp EXCEPT !.op = "qr_intent", !.id = order_id,
                                      !.user = user, !.role = RoleOf[user],
                                      !.code = r.code]
        /\ UNCHANGED <<draftVars, lockVars, draftItems, users, sweep, hubVars, kitchenVars,
                       orderVars, payments, refunds, shifts, cashEvents,
                       weblogs, wreq>>

\* The tables after a notification, its answer recorded.
Notified(r, ref, status) ==
    /\ Len(r.payments) <= Cardinality(PaymentIds)
    /\ Len(r.weblogs) <= Cardinality(Refs)
    /\ orders' = r.orders
    /\ payments' = r.payments
    /\ intents' = r.intents
    /\ weblogs' = r.weblogs
    /\ mlast' = [NoMoneyOp EXCEPT !.op = "webhook", !.id = ref,
                                  !.code = 200, !.result = r.result,
                                  !.status = status]
    /\ UNCHANGED <<draftVars, lockVars, draftItems, users, sweep, hubVars, kitchenVars, olast,
                   refunds, shifts, cashEvents>>

Webhook(ref, status, actual_status) ==
    /\ Notified(mercadopago_webhook(orders, payments, intents, weblogs, ref,
                                    status, actual_status), ref, status)
    /\ UNCHANGED wreq

(***************************************************************************)
(* The webhook served by parallel workers: each statement that reads or    *)
(* writes the database is a step of its own                                *)
(***************************************************************************)
\* The idempotency check and the intent lookup.
WebhookCheck(w, ref, status) ==
    /\ wreq[w].pc = "idle"
    /\ LET i == intent_of(intents, ref)
       IN  IF existing_log(weblogs, ref) \/ i = NoIntent
           THEN /\ mlast' = [NoMoneyOp EXCEPT
                                !.op = "webhook", !.id = ref, !.code = 200,
                                !.status = status,
                                !.result = IF existing_log(weblogs, ref)
                                           THEN "duplicate" ELSE "error"]
                /\ UNCHANGED wreq
           ELSE /\ wreq' = [wreq EXCEPT ![w] =
                               [pc |-> "checked", ref |-> ref,
                                status |-> status, intent_id |-> i,
                                intent |-> intents[i],
                                payment |-> NoPayment]]
                /\ UNCHANGED mlast
    /\ UNCHANGED <<draftVars, lockVars, draftItems, users, sweep, hubVars, kitchenVars, orderVars,
                   payments, intents, refunds, shifts, cashEvents, weblogs>>

\* The payment lookup of process_successful_payment and its two siblings.
WebhookFind(w) ==
    /\ wreq[w].pc = "checked"
    /\ wreq' = [wreq EXCEPT ![w].pc = "found",
                            ![w].payment =
                                payment_of(payments, wreq[w].intent_id)]
    /\ UNCHANGED <<draftVars, lockVars, draftItems, users, sweep, hubVars, kitchenVars, orderVars,
                   payments, intents, refunds, shifts, cashEvents, weblogs,
                   mlast>>

\* The commit of the payment, the intent and the order.
WebhookCommit(w, api) ==
    /\ wreq[w].pc = "found"
    /\ LET r == process_notification(orders, payments, intents,
                                     wreq[w].intent_id, wreq[w].intent,
                                     wreq[w].payment, wreq[w].status, api)
       IN  /\ Len(r.payments) <= Cardinality(PaymentIds)
           /\ orders' = r.orders
           /\ payments' = r.payments
           /\ intents' = r.intents
           /\ IF r.logs
              THEN /\ wreq' = [wreq EXCEPT ![w].pc = "committed"]
                   /\ UNCHANGED mlast
              ELSE /\ wreq' = [wreq EXCEPT ![w] = IdleDelivery]
                   /\ mlast' = [NoMoneyOp EXCEPT
                                   !.op = "webhook", !.id = wreq[w].ref,
                                   !.code = 200, !.result = "processed",
                                   !.status = wreq[w].status]
    /\ UNCHANGED <<draftVars, lockVars, draftItems, users, sweep, hubVars, kitchenVars, olast,
                   refunds, shifts, cashEvents, weblogs>>

\* The insert and the commit of the log row, and the answer.
WebhookLog(w) ==
    /\ wreq[w].pc = "committed"
    /\ Len(weblogs) < Cardinality(Refs)
    /\ weblogs' = webhook_log(weblogs, wreq[w].ref, wreq[w].status)
    /\ mlast' = [NoMoneyOp EXCEPT !.op = "webhook", !.id = wreq[w].ref,
                                  !.code = 200, !.result = "processed",
                                  !.status = wreq[w].status]
    /\ wreq' = [wreq EXCEPT ![w] = IdleDelivery]
    /\ UNCHANGED <<draftVars, lockVars, draftItems, users, sweep, hubVars, kitchenVars, orderVars,
                   payments, intents, refunds, shifts, cashEvents>>

(***************************************************************************)
(* The WebSocket hub: ConnectionManager (core/websocket_manager.py) and    *)
(* the endpoints that register with it (api/websockets.py)                 *)
(***************************************************************************)
Conns == {1, 2, 3}          \* the WebSocket objects
Tasks == {1, 2}             \* the broadcast coroutines; task t publishes frame t
TableSessions == {1}
HubKinds == {"table", "user", "station"}

\* manager = ConnectionManager(): a dict holds Some(set) under a key it has
\* and None under a key it lacks.
ConnectionManager ==
    [table_connections |-> [i \in TableSessions |-> None],
     user_connections |-> [i \in Users |-> None],
     station_connections |-> [i \in Stations |-> None],
     connection_to_table |-> [c \in Conns |-> None],
     connection_to_user |-> [c \in Conns |-> None],
     connection_to_station |-> [c \in Conns |-> None]]

NewSocket == [state |-> "new", alive |-> TRUE, kind |-> "none", id |-> 0,
              frames |-> <<>>]
IdleTask == [pc |-> "idle", station_id |-> "none", initial |-> {},
             used |-> 0, visited |-> {}, cur |-> 0, failed |-> FALSE,
             disconnected |-> {}, detached |-> FALSE]

NoHub ==
    /\ manager = ConnectionManager
    /\ sockets = [c \in Conns |-> NewSocket]
    /\ tasks = [t \in Tasks |-> IdleTask]

\* connections[id] gets the socket added, in a new set if the key is missing,
\* and the reverse map remembers the id.
register(m, conns, back, websocket, id) ==
    [m EXCEPT ![conns][id] = Some((IF @ = None THEN {} ELSE @[1])
                                  \cup {websocket}),
              ![back][websocket] = Some(id)]

connect_table(m, websocket, table_session_id) ==
    register(m, "table_connections", "connection_to_table", websocket,
             table_session_id)

connect_user(m, websocket, user_id) ==
    register(m, "user_connections", "connection_to_user", websocket, user_id)

connect_station(m, websocket, station_id) ==
    register(m, "station_connections", "connection_to_station", websocket,
             station_id)

\* one branch of disconnect: discard from the set the reverse map names,
\* delete the set when it is left empty, delete the reverse entry.
unregister(m, conns, back, websocket) ==
    LET id == m[back][websocket][1]
    IN  [m EXCEPT ![conns][id] =
                      IF @ = None THEN None
                      ELSE IF @[1] \ {websocket} = {} THEN None
                      ELSE Some(@[1] \ {websocket}),
                  ![back][websocket] = None]

disconnect(m, websocket) ==
    IF m.connection_to_table[websocket] # None
    THEN unregister(m, "table_connections", "connection_to_table", websocket)
    ELSE IF m.connection_to_user[websocket] # None
    THEN unregister(m, "user_connections", "connection_to_user", websocket)
    ELSE IF m.connection_to_station[websocket] # None
    THEN unregister(m, "station_connections", "connection_to_station",
                    websocket)
    ELSE m

\* for connection in disconnected: self.disconnect(connection)
RECURSIVE clean_up(_, _)
clean_up(m, disconnected) ==
    IF disconnected = {} THEN m
    ELSE LET c == CHOOSE x \in disconnected : TRUE
         IN  clean_up(disconnect(m, c), disconnected \ {c})

\* websocket.send_text / send_json: the frame goes out unless the peer is
\* gone, in which case the call raises.
send_text(socks, c, frame) ==
    IF socks[c].alive
    THEN [socks EXCEPT ![c].frames = Append(@, frame)]
    ELSE socks

\* A broadcast holds a reference to the set it iterates.  When disconnect
\* deletes that set from the dict, the broadcast is left with the emptied
\* object, whatever set is later created under the same key.
Orphaned(ts, m) ==
    [t \in Tasks |->
        IF ts[t].pc = "sending" /\ m.station_connections[ts[t].station_id] = None
        THEN [ts[t] EXCEPT !.detached = TRUE]
        ELSE ts[t]]

Iterated(m, task) ==
    IF task.detached THEN {} ELSE m.station_connections[task.station_id][1]

Frame(t, station_id) == [type |-> "event", station |-> station_id, n |-> t]
Confirmation(kind, id) == [type |-> "connection_confirmed", kind |-> kind,
                           id |-> id]

\* the endpoints /ws/table, /ws/user and /ws/station up to their receive loop
Connect(c, kind, id) ==
    /\ sockets[c].state = "new"
    /\ manager' = (CASE kind = "table" -> connect_table(manager, c, id)
                     [] kind = "user" -> connect_user(manager, c, id)
                     [] kind = "station" -> connect_station(manager, c, id))
    /\ sockets' = send_text([sockets EXCEPT ![c].state = "open",
                                            ![c].kind = kind, ![c].id = id],
                            c, Confirmation(kind, id))
    /\ UNCHANGED <<draftVars, lockVars, draftItems, users, sweep, kitchenVars, orderVars,
                   moneyVars, tasks>>

ConnectTable(c, id) == Connect(c, "table", id)
ConnectUser(c, id) == Connect(c, "user", id)
ConnectStation(c, id) == Connect(c, "station", id)

\* The peer goes away; the endpoint has not noticed yet.
PeerGone(c) ==
    /\ sockets[c].state = "open"
    /\ sockets[c].alive
    /\ sockets' = [sockets EXCEPT ![c].alive = FALSE]
    /\ UNCHANGED <<draftVars, lockVars, draftItems, users, sweep, kitchenVars, orderVars,
                   moneyVars, manager, tasks>>

\* except WebSocketDisconnect: manager.disconnect(websocket)
EndpointDisconnect(c) ==
    /\ sockets[c].state = "open"
    /\ sockets' = [sockets EXCEPT ![c].state = "closed", ![c].alive = FALSE]
    /\ manager' = disconnect(manager, c)
    /\ tasks' = Orphaned(tasks, manager')
    /\ UNCHANGED <<draftVars, lockVars, draftItems, users, sweep, kitchenVars, orderVars,
                   moneyVars>>

\* for connection in connections: await connection.send_text(message_json)
\* One turn of the loop, from the resumption after the previous write to the
\* suspension in the next: the pending exception is handled, next() is
\* called on the set iterator, which raises RuntimeError when the set has
\* changed size since the iteration began, and the next write is made.  When
\* the iterator is exhausted the dead connections are cleaned up.
Turn(t, task) ==
    LET live == Iterated(manager, task)
        left == live \ task.visited
    IN  IF Cardinality(live) # task.used
        THEN /\ tasks' = [tasks EXCEPT ![t] = [task EXCEPT !.pc = "raised"]]
             /\ UNCHANGED <<manager, sockets>>
        ELSE \/ \E c \in left :
                  /\ tasks' = [tasks EXCEPT ![t] =
                                  [task EXCEPT !.pc = "sending", !.cur = c,
                                               !.visited = @ \cup {c},
                                               !.failed = ~sockets[c].alive]]
                  /\ sockets' = send_text(sockets, c,
                                          Frame(t, task.station_id))
                  /\ UNCHANGED manager
             \/ /\ left \cap task.initial = {}
                /\ manager' = clean_up(manager, task.disconnected)
                /\ tasks' = Orphaned([tasks EXCEPT ![t] =
                                         [task EXCEPT !.pc = "done"]],
                                     manager')
                /\ UNCHANGED sockets

\* await manager.broadcast_to_station(station_id, message), up to the first
\* suspension
BroadcastToStation(t, station_id) ==
    /\ tasks[t].pc = "idle"
    /\ IF manager.station_connections[station_id] = None
       THEN /\ tasks' = [tasks EXCEPT ![t] = [IdleTask EXCEPT
                                                 !.pc = "done",
                                                 !.station_id = station_id]]
            /\ UNCHANGED <<manager, sockets>>
       ELSE LET connections == manager.station_connections[station_id][1]
            IN  Turn(t, [IdleTask EXCEPT !.station_id = station_id,
                                         !.initial = connections,
                                         !.used = Cardinality(connections)])
    /\ UNCHANGED <<draftVars, lockVars, draftItems, users, sweep, kitchenVars, orderVars,
                   moneyVars>>

\* the broadcast is resumed after a write
Resume(t) ==
    /\ tasks[t].pc = "sending"
    /\ Turn(t, [tasks[t] EXCEPT !.disconnected =
                                    IF tasks[t].failed
                                    THEN @ \cup {tasks[t].cur} ELSE @,
                                !.failed = FALSE])
    /\ UNCHANGED <<draftVars, lockVars, draftItems, users, sweep, kitchenVars, orderVars,
                   moneyVars>>


(***************************************************************************)
(* The sweeper as a job of its own beside the API workers: each query and  *)
(* each commit of expire_stale_drafts is a step, and other requests are    *)
(* served in between.  The job changes the rows its session loaded and the *)
(* commit writes the columns it changed.                                   *)
(***************************************************************************)
NoSweep == [pc |-> "idle", ids |-> {}, loaded |-> <<>>]

\* expired_drafts = session.exec(select(DraftOrder).where(...)).all()
SweepQuery ==
    /\ sweep.pc = "idle"
    /\ LET ids == expired_drafts(drafts, now)
       IN  sweep' = IF ids = {} THEN NoSweep
                    ELSE [pc |-> "expiring", ids |-> ids, loaded |-> drafts]
    /\ last' = [op |-> "sweep_query", user |-> NoUser, d |-> 0, result |-> OK]
    /\ pre' = drafts
    /\ UNCHANGED <<now, drafts, lockVars, draftItems, users, hubVars, kitchenVars,
                   orderVars, moneyVars>>

\* for draft in expired_drafts: draft.transition_to_expired(); session.commit()
SweepExpire ==
    /\ sweep.pc = "expiring"
    /\ \A d \in sweep.ids : Room(d)
    /\ drafts' = [d \in DraftIds |->
                     IF d \in sweep.ids
                     THEN Flush(sweep.loaded[d],
                                transition_to_expired(sweep.loaded[d],
                                                      now).draft,
                                drafts[d])
                     ELSE drafts[d]]
    /\ sweep' = [pc |-> "expired", ids |-> {}, loaded |-> <<>>]
    /\ last' = [op |-> "sweep_expire", user |-> NoUser, d |-> 0, result |-> OK]
    /\ pre' = drafts
    /\ UNCHANGED <<now, lockVars, draftItems, users, hubVars, kitchenVars, orderVars,
                   moneyVars>>

\* stale_locked_drafts = session.exec(select(DraftOrder).where(...)).all()
SweepQueryLocks ==
    /\ sweep.pc = "expired"
    /\ sweep' = [pc |-> "releasing", ids |-> stale_locked_drafts(drafts, now),
                 loaded |-> drafts]
    /\ last' = [op |-> "sweep_query_locks", user |-> NoUser, d |-> 0,
                result |-> OK]
    /\ pre' = drafts
    /\ UNCHANGED <<now, drafts, lockVars, draftItems, users, hubVars, kitchenVars,
                   orderVars, moneyVars>>

\* for draft in stale_locked_drafts: ...; session.commit()
SweepRelease ==
    /\ sweep.pc = "releasing"
    /\ \A d \in sweep.ids : Room(d)
    /\ drafts' = [d \in DraftIds |->
                     IF d \in sweep.ids
                     THEN Flush(sweep.loaded[d],
                                AfterLockRelease(sweep.loaded, now)[d],
                                drafts[d])
                     ELSE drafts[d]]
    /\ sweep' = NoSweep
    /\ last' = [op |-> "sweep_release", user |-> NoUser, d |-> 0,
                result |-> OK]
    /\ pre' = drafts
    /\ UNCHANGED <<now, lockVars, draftItems, users, hubVars, kitchenVars, orderVars,
                   moneyVars>>


Init ==
    /\ now = 0
    /\ drafts = [d \in DraftIds |-> NewDraft]
    /\ last = NoOp
    /\ pre = drafts
    /\ acq = [u \in Users |-> Idle]
    /\ race = NoRace
    /\ draftItems = [d \in DraftIds |-> HappyPathItems]
    /\ NoKitchen
    /\ NoOrders
    /\ NoMoney
    /\ NoHub
    /\ sweep = NoSweep
    /\ users = OneTenant

vars == <<draftVars, lockVars, otherVars>>

Next ==
    \/ Tick
    \/ \E d \in DraftIds : Submit(d)
    \/ \E u \in Users, d \in DraftIds : AcquireLock(u, d)
    \/ \E u \in Users, d \in DraftIds : ReleaseLock(u, d)
    \/ \E u \in Users, d \in DraftIds : Confirm(u, d)
    \/ \E u \in Users, d \in DraftIds : Reject(u, d)
    \/ \E d \in DraftIds : Expire(d)
    \/ Sweeper

Spec == Init /\ [][Next]_vars

NextLock ==
    \/ Tick
    \/ \E d \in DraftIds : Submit(d)
    \/ \E d \in DraftIds : StartRace(d)
    \/ \E u \in Users : HandleAcquire(u)
    \/ EndRace
    \/ \E u \in Users, d \in DraftIds : ReleaseIdle(u, d)

SpecLock == Init /\ [][NextLock]_vars

\* The second draft is created one clock step after the first, so that the
\* two pass their expires_at at different runs of the sweeper.
LaterDraft == CHOOSE d \in DraftIds : \A e \in DraftIds : d >= e

InitSweep ==
    /\ \E dt \in TimeSteps :
          /\ now = dt
          /\ drafts = [d \in DraftIds |->
                          IF d = LaterDraft
                          THEN [NewDraft EXCEPT !.expires_at = dt + DraftTtlSeconds]
                          ELSE NewDraft]
    /\ last = NoOp
    /\ pre = drafts
    /\ acq = [u \in Users |-> Idle]
    /\ race = NoRace
    /\ draftItems = [d \in DraftIds |-> HappyPathItems]
    /\ NoKitchen
    /\ NoOrders
    /\ NoMoney
    /\ NoHub
    /\ sweep = NoSweep
    /\ users = OneTenant

SpecSweep == InitSweep /\ [][Next]_vars

\* The sweeper job beside waiters who acquire locks.
NextSweepRace ==
    \/ Tick
    \/ \E d \in DraftIds : Submit(d)
    \/ \E u \in Users, d \in DraftIds : AcquireLock(u, d)
    \/ SweepQuery
    \/ SweepExpire
    \/ SweepQueryLocks
    \/ SweepRelease

SpecSweepRace == InitSweep /\ [][NextSweepRace]_vars

\* The kitchen: the line items of one draft vary, waiter W1 confirms it and
\* ticket requests are served one at a time; the other draft stays a draft.
KitchenDraft == CHOOSE d \in DraftIds : \A e \in DraftIds : d <= e
KitchenWaiter == CHOOSE u \in Users : \A v \in Users : u <= v

InitTicket ==
    /\ now = 0
    /\ drafts = [d \in DraftIds |-> NewDraft]
    /\ last = NoOp
    /\ pre = drafts
    /\ acq = [u \in Users |-> Idle]
    /\ race = NoRace
    /\ draftItems \in {f \in [DraftIds -> ItemChoices \cup {HappyPathItems}] :
                        \A d \in DraftIds \ {KitchenDraft} :
                            f[d] = HappyPathItems}
    /\ NoKitchen
    /\ NoOrders
    /\ NoMoney
    /\ NoHub
    /\ sweep = NoSweep
    /\ users = OneTenant

NextTicket ==
    \/ PlaceOrder(KitchenDraft)
    \/ TakeOrder(KitchenWaiter, KitchenDraft)
    \/ ConfirmOrder(KitchenWaiter, KitchenDraft)
    \/ \E d \in DraftIds : GenerateTickets(d)
    \/ \E id \in TicketIds : \E v \in EchoedVersions(id) : BumpTicket(id, v)
    \/ \E id \in TicketIds : \E v \in EchoedVersions(id) : HoldTicket(id, v)
    \/ \E id \in TicketIds : \E v \in EchoedVersions(id) : FireTicket(id, v)
    \/ \E id \in TicketIds, role \in KitchenRoles :
          \E v \in EchoedVersions(id) : VoidTicket(id, v, role)
    \/ \E id \in TicketIds, status \in RequestedStatus :
          \E v \in EchoedVersions(id) : UpdateTicketStatus(id, v, status)
    \/ \E id \in TicketIds, role \in KitchenRoles, st \in {"grill", NoStation} :
          \E v \in EchoedVersions(id) : ReassignTicket(id, v, role, st)

SpecTicket == InitTicket /\ [][NextTicket]_vars

\* The kitchen with two workers serving bump and void requests in parallel;
\* each worker serves one request.
NextTicketRace ==
    \/ PlaceOrder(KitchenDraft)
    \/ TakeOrder(KitchenWaiter, KitchenDraft)
    \/ ConfirmOrder(KitchenWaiter, KitchenDraft)
    \/ GenerateTickets(KitchenDraft)
    \/ \E w \in Workers, op \in RaceOps, id \in TicketIds :
          \E v \in EchoedVersions(id) : LoadTicket(w, op, id, v)
    \/ \E w \in Workers : CommitTicket(w)

SpecTicketRace == Init /\ [][NextTicketRace]_vars

\* Waiters confirm drafts and order-creation requests arrive for them.
NextOrder ==
    \/ \E d \in DraftIds : PlaceOrder(d)
    \/ \E u \in Users, d \in DraftIds : TakeOrder(u, d)
    \/ \E u \in Users, d \in DraftIds : ConfirmOrder(u, d)
    \/ \E d \in DraftIds : CreateOrder(d)

SpecOrder == Init /\ [][NextOrder]_vars

\* The kitchen with staff of every role asking for reprints.
NextReprint ==
    \/ PlaceOrder(KitchenDraft)
    \/ TakeOrder(KitchenWaiter, KitchenDraft)
    \/ ConfirmOrder(KitchenWaiter, KitchenDraft)
    \/ GenerateTickets(KitchenDraft)
    \/ \E id \in TicketIds, role \in Roles : ReprintTicket(id, role)

SpecReprint == InitTicket /\ [][NextReprint]_vars

\* The draft after the guest submitted it and waiter u took and confirmed it.
ConfirmedDraft(u, d) ==
    transition_to_confirmed(
        acquire_lock(transition_to_pending(NewDraft).draft, u, 0).draft,
        u, d).draft

\* Order(status=OrderStatus.PENDING, total_amount=...) for draft d
SeededOrder(d) ==
    [draft_order_id |-> d, status |-> PENDING, total_amount |-> OrderTotal]

\* The house in service: the kitchen draft is confirmed and has its order;
\* nothing is paid yet and no shift is open.
Confirmed ==
    /\ now = 0
    /\ drafts = [d \in DraftIds |->
                    IF d = KitchenDraft
                    THEN ConfirmedDraft(KitchenWaiter, d) ELSE NewDraft]
    /\ last = NoOp
    /\ pre = drafts
    /\ acq = [u \in Users |-> Idle]
    /\ race = NoRace
    /\ draftItems = [d \in DraftIds |-> HappyPathItems]
    /\ orders = <<SeededOrder(KitchenDraft)>>
    /\ olast = NoOrderOp
    /\ NoHub
    /\ sweep = NoSweep
    /\ users = OneTenant

InService == Confirmed /\ NoMoney

\* ... with the tickets of the kitchen draft generated.
InitStaff ==
    /\ InService
    /\ LET r == generate_tickets(ConfirmedDraft(KitchenWaiter, KitchenDraft),
                                 KitchenDraft, HappyPathItems, <<>>, <<>>, 0)
       IN  tickets = r.tickets /\ lines = r.lines
    /\ tlast = NoTicketOp
    /\ treq = [w \in Workers |-> IdleRequest]

\* Staff of both roles void tickets and line items, take cash, refund and
\* work the cash drawer.
NextStaff ==
    \/ \E id \in TicketIds, role \in KitchenRoles :
          VoidTicket(id, tickets[id].version, role)
    \/ \E id \in TicketIds, role \in KitchenRoles : VoidLineItem(id, 1, role)
    \/ \E u \in Users : OpenShift(u)
    \/ \E u \in Users : ProcessPayment(u, 1, OrderTotal, CASH)
    \/ \E u \in Users, id \in PaymentIds, amount \in Amounts :
          ProcessRefund(u, id, amount)
    \/ \E u \in Users, id \in ShiftIds, amount \in DrawerAmounts,
          event_type \in {CASH_DROP, TIP_PAYOUT, CASH_ADJUSTMENT} :
          DrawerEvent(u, id, event_type, amount)

SpecStaff == InitStaff /\ [][NextStaff]_vars

\* The kitchen works the tickets off, the guest pays by QR code, and the
\* waiter closes the order at any moment.
NextComplete ==
    \/ \E id \in TicketIds : BumpTicket(id, tickets[id].version)
    \/ \E id \in TicketIds, status \in RequestedStatus :
          UpdateTicketStatus(id, tickets[id].version, status)
    \/ \E id \in TicketIds, role \in KitchenRoles :
          VoidTicket(id, tickets[id].version, role)
    \/ \E u \in Users : CreateQrIntent(u, 1, 0)
    \/ \E ref \in Refs : Webhook(ref, "paid", "paid")
    \/ CompleteOrder(1)

SpecComplete == InitStaff /\ [][NextComplete]_vars

\* ... with no ticket generated yet.
InitPay == InService /\ NoKitchen

\* A Shift object as its constructor leaves it, and the calls of its methods
\* in any order; the server takes cash meanwhile.
InitShiftModel ==
    /\ Confirmed
    /\ NoKitchen
    /\ payments = <<>>
    /\ intents = <<>>
    /\ refunds = <<>>
    /\ shifts = <<NewShift(KitchenWaiter)>>
    /\ cashEvents = <<>>
    /\ weblogs = <<>>
    /\ mlast = NoMoneyOp
    /\ wreq = [w \in Workers |-> IdleDelivery]

NextShiftModel ==
    \/ StartShift(1, OpeningBalance)
    \/ BeginClosing(1)
    \/ EndShift(1)
    \/ \E closing_cash_count \in CashCounts :
          RecordCashCount(1, closing_cash_count)
    \/ Reconcile(1)
    \/ \E amount \in Amounts : ProcessPayment(KitchenWaiter, 1, amount, CASH)

SpecShiftModel == InitShiftModel /\ [][NextShiftModel]_vars

\* Shifts opened by parallel workers, and closed and reconciled through the
\* handlers.
NextShiftRace ==
    \/ \E w \in Workers, server_id \in Users : OpenShiftCheck(w, server_id)
    \/ \E w \in Workers : OpenShiftInsert(w)
    \/ \E u \in Users, id \in ShiftIds :
          \E closing_cash_count \in {None} \cup {Some(c) : c \in CashCounts} :
              UpdateShift(u, id,
                          IF id \in 1..Len(shifts) THEN shifts[id].version
                          ELSE 1, closing_cash_count)
    \/ \E u \in Users, id \in ShiftIds, closing_cash_count \in CashCounts :
          CloseShift(u, id, closing_cash_count)
    \/ \E u \in Users, id \in ShiftIds : ReconcileShift(u, id)

SpecShiftRace == InitPay /\ [][NextShiftRace]_vars

\* The order of the kitchen draft is paid: in cash, by card terminal or by QR
\* code, the provider notifying the outcome.
NextPay ==
    \/ \E u \in Users, tip_amount \in Tips : CreateQrIntent(u, 1, tip_amount)
    \/ \E u \in Users, amount \in Amounts, method \in {CASH, TERMINAL, QR} :
          ProcessPayment(u, 1, amount, method)
    \/ \E u \in Users, id \in PaymentIds, status \in {COMPLETED, FAILED} :
          UpdatePayment(u, id,
                        IF id \in 1..Len(payments) THEN payments[id].version
                        ELSE 1, status)
    \/ \E ref \in Refs, status \in DeliveryStatuses,
          actual_status \in ApiStatuses :
          Webhook(ref, status, actual_status)

SpecPay == InitPay /\ [][NextPay]_vars

\* The provider notifies the same outcome more than once, and the
\* notifications are served by parallel workers.
NextWebhookRace ==
    \/ \E u \in Users, tip_amount \in Tips : CreateQrIntent(u, 1, tip_amount)
    \/ \E w \in Workers, ref \in Refs, status \in DeliveryStatuses :
          WebhookCheck(w, ref, status)
    \/ \E w \in Workers : WebhookFind(w)
    \/ \E w \in Workers, api \in ApiStatuses : WebhookCommit(w, api)
    \/ \E w \in Workers : WebhookLog(w)

SpecWebhookRace == InitPay /\ [][NextWebhookRace]_vars

\* Screens, guests and waiters connect and go away while events are
\* broadcast to the stations.
\* Two tenants on one deployment: servers open shifts, managers work the
\* cash drawer of a shift and staff read a shift, each by the shift's id.
InitTenant ==
    /\ now = 0
    /\ drafts = [d \in DraftIds |-> NewDraft]
    /\ last = NoOp
    /\ pre = drafts
    /\ acq = [u \in Users |-> Idle]
    /\ race = NoRace
    /\ draftItems = [d \in DraftIds |-> HappyPathItems]
    /\ NoKitchen
    /\ NoOrders
    /\ NoMoney
    /\ NoHub
    /\ sweep = NoSweep
    /\ users \in [Users -> [tenant_id : Tenants]]

NextTenant ==
    \/ \E u \in Users : OpenShift(u)
    \/ \E u \in Users, id \in ShiftIds : GetShift(u, id)
    \/ \E u \in Users, id \in ShiftIds, amount \in DrawerAmounts,
          event_type \in {CASH_DROP, TIP_PAYOUT, CASH_ADJUSTMENT} :
          DrawerEvent(u, id, event_type, amount)

SpecTenant == InitTenant /\ [][NextTenant]_vars

NextHub ==
    \/ \E c \in Conns, id \in Stations : ConnectStation(c, id)
    \/ \E c \in Conns, id \in TableSessions : ConnectTable(c, id)
    \/ \E c \in Conns : ConnectUser(c, KitchenWaiter)
    \/ \E c \in Conns : PeerGone(c)
    \/ \E c \in Conns : EndpointDisconnect(c)
    \/ \E id \in Stations : BroadcastToStation(1, id)
    \/ Resume(1)

SpecHub == Init /\ [][NextHub]_vars

\* Two mutations of one ticket: each handler commits and, with no suspension
\* in between, calls the broadcast to the ticket's station, so the broadcast
\* of the mutation that committed first begins first.  Task t is the
\* broadcast of the t-th commit.
Publish(t, station_id) ==
    /\ \A u \in Tasks : u < t => tasks[u].pc # "idle"
    /\ BroadcastToStation(t, station_id)

NextEvents ==
    \/ \E c \in Conns : ConnectStation(c, "grill")
    \/ \E c \in Conns : EndpointDisconnect(c)
    \/ \E t \in Tasks : Publish(t, "grill")
    \/ \E t \in Tasks : Resume(t)

SpecEvents == Init /\ [][NextEvents]_vars

(***************************************************************************)
(* Claims about the draft coordinator                                      *)
(***************************************************************************)
DraftOps == {"submit", "acquire", "release", "confirm", "reject", "expire"}
ElapsedAtLast == now - pre[last.d].locked_at

C2_LockOnlyWhilePending ==
    /\ \A d \in DraftIds :
          drafts[d].locked_by # NoUser =>
              drafts[d].status = PENDING /\ drafts[d].locked_at # NoTime
    /\ (last.op \in {"confirm", "reject", "expire"} /\ last.result = OK) =>
          /\ drafts[last.d].status \in TerminalDraftStatus
          /\ drafts[last.d].locked_by = NoUser
          /\ drafts[last.d].locked_at = NoTime

C2_Witness ==
    /\ last.op = "confirm"
    /\ last.result = OK
    /\ pre[last.d].locked_by = last.user
    /\ drafts[last.d].status = CONFIRMED

\* C3: a confirm or reject by user U succeeds only if U held the lock at that
\* moment; on an unlocked draft or one locked by somebody else it is refused
\* ("not locked by this user", LockNotHeld) and the draft is left unchanged.
C3_OnlyHolderConfirmsOrRejects ==
    last.op \in {"confirm", "reject"} =>
        /\ last.result = OK => pre[last.d].locked_by = last.user
        /\ pre[last.d].locked_by # last.user =>
              /\ last.result = NotLockedByUser
              /\ drafts[last.d] = pre[last.d]

C3_Witness ==
    /\ last.op \in {"confirm", "reject"}
    /\ pre[last.d].status = PENDING
    /\ pre[last.d].locked_by \notin {NoUser, last.user}
    /\ last.result = NotLockedByUser

\* The case C4 is about: user U asks for the lock of a pending draft that is
\* locked by a different user V.
AcquireFromOther ==
    /\ last.op = "acquire"
    /\ pre[last.d].status = PENDING
    /\ pre[last.d].locked_by \notin {NoUser, last.user}

\* C4 as stated: the acquire succeeds if and only if now - locked_at >= 30
\* minutes, and is refused with LockConflict while now - locked_at < 30 minutes.
C4_Original ==
    AcquireFromOther =>
        /\ last.result = OK <=> ElapsedAtLast >= LockLeaseSeconds
        /\ last.result = OK =>
              /\ drafts[last.d].locked_by = last.user
              /\ drafts[last.d].locked_at = now
        /\ ElapsedAtLast < LockLeaseSeconds => last.result = LockedByAnother

\* C4 (amended): for a pending draft locked by V, an acquire by a different
\* user U succeeds if and only if now - locked_at is strictly greater than 30
\* minutes; it then sets locked_by = U and locked_at = now; while
\* now - locked_at <= 30 minutes it is refused with LockConflict and the draft
\* is unchanged.
C4_TakeoverAfterLease ==
    AcquireFromOther =>
        /\ last.result = OK <=> ElapsedAtLast > LockLeaseSeconds
        /\ last.result = OK =>
              /\ drafts[last.d].locked_by = last.user
              /\ drafts[last.d].locked_at = now
        /\ ElapsedAtLast <= LockLeaseSeconds =>
              /\ last.result = LockedByAnother
              /\ drafts[last.d] = pre[last.d]

\* The boundary instant: exactly 30 minutes after V took the lock.
C4_Witness ==
    /\ AcquireFromOther
    /\ ElapsedAtLast = LockLeaseSeconds
    /\ last.result = LockedByAnother

\* C5: confirmed, rejected and expired are terminal: no step of any operation
\* changes the status of a draft that is in one of them.
C5_TerminalIsFinal ==
    [][\A d \in DraftIds :
          drafts[d].status \in TerminalDraftStatus =>
              drafts'[d].status = drafts[d].status]_vars

C5_Witness ==
    /\ last.op \in DraftOps
    /\ pre[last.d].status \in TerminalDraftStatus
    /\ last.result # OK

\* C6: every successful submit, acquire, release, confirm, reject and expire
\* leaves the draft's version exactly one higher than it was.
C6_VersionBumpsByOne ==
    (last.op \in DraftOps /\ last.result = OK) =>
        drafts[last.d].version = pre[last.d].version + 1

C6_Witness ==
    /\ last.op = "release"
    /\ last.result = OK
    /\ drafts[last.d].version = pre[last.d].version + 1

(***************************************************************************)
(* Claims about versions, orders and ticket generation                     *)
(***************************************************************************)
\* A request was served and echoed a version other than the stored one.
StaleServed == tlast'.stale /\ kitchenVars' # kitchenVars

\* C7 as stated: a ticket request that echoes a version different from the
\* stored one is answered 409 and leaves the tickets and their line items
\* exactly as they were.
C7_Original ==
    [][StaleServed =>
          /\ tlast'.code = 409
          /\ tickets' = tickets
          /\ lines' = lines]_vars

\* C7: a ticket request that echoes a version different from the stored one
\* is refused and leaves the tickets and their line items exactly as they
\* were.  The refusal is 409, except where an earlier check of the handler
\* answers first: 403 when a role other than admin or manager asks to void
\* or reassign, 400 when the ticket to fire is not held, 404 when the
\* station to reassign to does not exist.
C7_StaleRequestChangesNothing ==
    [][StaleServed =>
          /\ tickets' = tickets
          /\ lines' = lines
          /\ tlast'.code \in {400, 403, 404, 409}
          /\ tlast'.op \in {"bump", "hold", "status"} => tlast'.code = 409
          /\ tlast'.code = 403 =>
                /\ tlast'.op \in {"void", "reassign"}
                /\ tlast'.role \notin {"admin", "manager"}
          /\ tlast'.code = 400 =>
                tlast'.op = "fire" /\ ~tickets[tlast'.id].is_held
          /\ tlast'.code = 404 => tlast'.op = "reassign"]_vars

C7_Witness ==
    /\ tlast.op = "bump"
    /\ tlast.stale
    /\ tlast.code = 409
    /\ tickets[tlast.id].version # 0

\* Two requests were in their handlers at the same time.
Concurrent(w1, w2) == w1 # w2 /\ (treq[w1].overlap \/ treq[w2].overlap)

\* C8: when two requests that echo the same version of the same ticket are
\* processed concurrently, at most one of them commits (the other is
\* answered 409) and the version ends one above the echoed one.  A request
\* that committed was answered 200, or 500 when it was a bump.
C8_VersionCheckIsAtomic ==
    \A w1, w2 \in Workers :
        (/\ Concurrent(w1, w2)
         /\ treq[w1].pc = "done" /\ treq[w2].pc = "done"
         /\ treq[w1].id = treq[w2].id
         /\ treq[w1].version = treq[w2].version
         /\ treq[w1].code \in {200, 500})
            => /\ treq[w2].code = 409
               /\ tickets[treq[w1].id].version = treq[w1].version + 1

Orders(d) == {i \in 1..Len(orders) : orders[i].draft_order_id = d}

\* C9: once an order-creation request for a confirmed draft has been
\* served, the draft has exactly one Order, however often the request is
\* repeated.
C9_ExactlyOneOrder ==
    (/\ olast.op = "create"
     /\ drafts[olast.d].status = CONFIRMED)
        => Cardinality(Orders(olast.d)) = 1

TicketsOf(tbl, d) == {i \in 1..Len(tbl) : tbl[i].draft_order_id = d}

RoutedPairs(d) ==
    {<<MenuItems[item].station_id, MenuItems[item].course_id>> :
        item \in {x \in Range(draftItems[d]) : Routed(x)}}

Born == (Len(tickets) + 1)..Len(tickets')

C13_NewIffNotFired ==
    \A i \in 1..Len(tickets) :
        tickets[i].status = NEW_TICKET <=> tickets[i].fired_at = NoTime

TerminalTicketStatus == {COMPLETED, VOIDED}
LegalTransitions ==
    {<<NEW_TICKET, PENDING>>, <<PENDING, PREPARING>>, <<PREPARING, READY>>,
     <<READY, COMPLETED>>, <<PENDING, COMPLETED>>}
        \cup {<<st, VOIDED>> : st \in TicketStatus \ TerminalTicketStatus}

\* C14: every change of a ticket's status follows a legal transition, and
\* completed and voided are never left.
C14_LegalTransitionsOnly ==
    [][\A i \in 1..Len(tickets) :
          tickets'[i].status # tickets[i].status
              => <<tickets[i].status, tickets'[i].status>> \in LegalTransitions
      ]_vars

\* C15: a successful hold sets is_held, held_reason and held_at and leaves
\* the status and fired_at of the ticket as they were.
C15_HoldKeepsStatus ==
    [][(tlast'.op = "hold" /\ tlast'.code = 200)
          => /\ tickets'[tlast'.id].is_held
             /\ tickets'[tlast'.id].held_reason # NoReason
             /\ tickets'[tlast'.id].held_at # NoTime
             /\ tickets'[tlast'.id].status = tickets[tlast'.id].status
             /\ tickets'[tlast'.id].fired_at = tickets[tlast'.id].fired_at
      ]_vars

(***************************************************************************)
(* Claims about roles                                                      *)
(***************************************************************************)
ManagerOnlyTicketOps == {"void", "void_line_item"}
ManagerOnlyMoneyOps == {"refund", CASH_DROP, TIP_PAYOUT, CASH_ADJUSTMENT}

\* C16: voiding an existing ticket or one of its line items, refunding an
\* existing payment and recording a cash drop, tip payout or cash adjustment
\* on an existing shift by a role other than manager or admin is answered 403
\* and changes nothing.
C16_ManagerOnly ==
    [][/\ (/\ tlast'.op \in ManagerOnlyTicketOps
           /\ tlast'.role \notin ManagerRoles
           /\ Found(tickets, tlast'.id)
           /\ kitchenVars' # kitchenVars)
              => /\ tlast'.code = 403
                 /\ tickets' = tickets
                 /\ lines' = lines
       /\ (/\ mlast'.op \in ManagerOnlyMoneyOps
           /\ mlast'.role \notin ManagerRoles
           /\ mlast'.id \in DOMAIN (IF mlast'.op = "refund" THEN payments
                                    ELSE shifts)
           /\ moneyVars' # moneyVars)
              => /\ mlast'.code = 403
                 /\ payments' = payments
                 /\ refunds' = refunds
                 /\ shifts' = shifts
                 /\ cashEvents' = cashEvents]_vars

ReprintServed ==
    /\ tlast'.op = "reprint"
    /\ kitchenVars' # kitchenVars
    /\ Found(tickets, tlast'.id)

Reprinted ==
    /\ tlast'.code = 200
    /\ tickets' = [tickets EXCEPT ![tlast'.id].print_count = @ + 1]

LogRows(logs, ref) ==
    {k \in 1..Len(logs) : logs[k].external_reference = ref
                              /\ logs[k].provider = "mercadopago"}

PaymentsFor(pays, i) ==
    {k \in 1..Len(pays) : pays[k].payment_intent_id = i}

C19_DuplicatesSerialised ==
    /\ \A ref \in Refs : Cardinality(LogRows(weblogs, ref)) <= 1
    /\ \A i \in 1..Len(intents) : Cardinality(PaymentsFor(payments, i)) <= 1

C22_RefundMarksPayment ==
    [][(mlast'.op = "refund" /\ refunds' # refunds)
          => /\ payments[mlast'.id].status = COMPLETED
             /\ refunds'[Len(refunds')].status = REQUESTED
             /\ payments'[mlast'.id].status = REFUNDED
             /\ \A k \in 1..Len(refunds) :
                   refunds[k].original_payment_id # mlast'.id]_vars

TerminalIntentStatus == {COMPLETED, CANCELLED, FAILED}

\* C23: an intent whose status is completed, cancelled or failed keeps that
\* status and its version whatever notification is served next.
C23_TerminalIntentIsFinal ==
    [][\A i \in 1..Len(intents) :
          intents[i].status \in TerminalIntentStatus
              => intents'[i] = intents[i]]_vars

OpenTickets(o) ==
    {i \in TicketsOf(tickets, orders[o].draft_order_id) :
        tickets[i].status \notin {COMPLETED, VOIDED}}

\* C24: an order becomes completed only from paid and with every ticket of
\* its draft completed or voided; a completion request made otherwise is
\* refused and leaves the order as it was.
C24_CompletionNeedsTicketsAndPayment ==
    [][/\ \A o \in 1..Len(orders) :
             (orders[o].status # COMPLETED /\ orders'[o].status = COMPLETED)
                 => (OpenTickets(o) = {} /\ orders[o].status = PAID)
       /\ (/\ olast'.op = "complete"
           /\ olast' # olast
           /\ olast'.d \in 1..Len(orders)
           /\ (OpenTickets(olast'.d) # {}
                  \/ orders[olast'.d].status # PAID))
              => (olast'.code # 200 /\ orders' = orders)]_vars

\* The events of shift s, as positions in the table, and the one before k.
Ledger(s) == {k \in 1..Len(cashEvents) : cashEvents[k].shift_id = s}

Previous(s, k) ==
    CHOOSE j \in Ledger(s) : j < k /\ \A i \in Ledger(s) : i < k => i <= j

\* C28: in the ledger of a shift the balance_after of every event but the
\* first is the balance_after of the event before it plus the event's signed
\* amount.
C28_LedgerBalanceChain ==
    \A s \in 1..Len(shifts) :
        \A k \in Ledger(s) :
            (\E j \in Ledger(s) : j < k)
                => cashEvents[k].balance_after
                       = cashEvents[Previous(s, k)].balance_after
                             + get_amount_signed(cashEvents[k])

(***************************************************************************)
(* Claims about shifts                                                     *)
(***************************************************************************)
ShiftChain ==
    {<<OPENING, ACTIVE>>, <<ACTIVE, CLOSING>>, <<CLOSING, CLOSED>>,
     <<CLOSED, RECONCILED>>}

ShiftTransitions ==
    ShiftChain \cup {<<OPENING, CLOSED>>, <<ACTIVE, CLOSED>>,
                     <<CLOSING, RECONCILED>>}

ShiftMethods ==
    {"start_shift", "end_shift", "begin_closing", "record_cash_count",
     "reconcile"}

\* A method of the shift was called and raised.
ShiftMethodRaised ==
    /\ mlast'.op \in ShiftMethods
    /\ mlast' # mlast
    /\ mlast'.result = "ValueError"

\* C25 as stated: a shift's status changes only along opening -> active ->
\* closing -> closed -> reconciled.
C25_Original ==
    [][\A s \in 1..Len(shifts) :
          shifts'[s].status # shifts[s].status
              => <<shifts[s].status, shifts'[s].status>> \in ShiftChain]_vars

\* C25: a shift's status changes only along the transitions
\* Shift.can_transition_to lists, which are the chain opening -> active ->
\* closing -> closed -> reconciled and the shortcuts opening -> closed,
\* active -> closed and closing -> reconciled; a method that raises leaves
\* the shift unchanged; a reconciled shift never changes status again.
C25_ShiftTransitions ==
    [][/\ \A s \in 1..Len(shifts) :
             /\ shifts'[s].status # shifts[s].status
                   => <<shifts[s].status, shifts'[s].status>>
                          \in ShiftTransitions
             /\ shifts[s].status = RECONCILED
                   => shifts'[s].status = RECONCILED
       /\ ShiftMethodRaised => shifts' = shifts]_vars

\* A transition out of reconciled was asked for and refused.
C25_Witness ==
    /\ mlast.op = "end_shift"
    /\ mlast.result = "ValueError"
    /\ shifts[mlast.id].status = RECONCILED

ActiveShifts(server_id) ==
    {s \in 1..Len(shifts) :
        shifts[s].server_id = server_id /\ shifts[s].status = ACTIVE}

\* C26: no server ever has more than one active shift, however the
\* open-shift requests for it are interleaved.
C26_OneActiveShiftPerServer ==
    \A server_id \in Users : Cardinality(ActiveShifts(server_id)) <= 1

\* C27: a closed or reconciled shift has expected_cash = opening_balance +
\* cash_sales and cash_variance = closing_cash_count - expected_cash.
C27_ClosedShiftCash ==
    \A s \in 1..Len(shifts) :
        shifts[s].status \in {CLOSED, RECONCILED}
            => /\ shifts[s].closing_cash_count # None
               /\ shifts[s].expected_cash
                      = Some(shifts[s].opening_balance + shifts[s].cash_sales)
               /\ shifts[s].cash_variance
                      = Some(shifts[s].closing_cash_count[1]
                                 - shifts[s].expected_cash[1])

(***************************************************************************)
(* The WebSocket hub                                                       *)
(***************************************************************************)
Members(dict, id) == IF dict[id] = None THEN {} ELSE dict[id][1]

Registered(c) ==
    \/ \E id \in Stations : c \in Members(manager.station_connections, id)
    \/ \E id \in TableSessions : c \in Members(manager.table_connections, id)
    \/ \E id \in Users : c \in Members(manager.user_connections, id)

Received(c, t) ==
    \E k \in 1..Len(sockets[c].frames) :
        sockets[c].frames[k] = Frame(t, tasks[t].station_id)

Finished(t) == tasks[t].pc \in {"done", "raised"}

\* The connections that were registered under the station of broadcast t
\* when it began and still are.
Audience(t) ==
    tasks[t].initial
        \cap Members(manager.station_connections, tasks[t].station_id)

\* A frame of a station reaches only connections opened for that station.
OwnEventsOnly ==
    \A t \in Tasks, c \in Conns :
        Received(c, t) =>
            sockets[c].kind = "station" /\ sockets[c].id = tasks[t].station_id

\* C29: stations only receive their own events: a frame published for
\* station S is written to every connection registered under S and to no
\* connection registered under another station, a table session or a user.
C29_StationsReceiveOwnEvents ==
    /\ OwnEventsOnly
    /\ \A t \in Tasks :
          Finished(t) => Audience(t) \subseteq tasks[t].visited

\* C30: when a write to a connection fails during a broadcast, the
\* connection is evicted from the registry, and every other connection of
\* the set still gets the frame.
C30_FailedWriteEvicts ==
    \A t \in Tasks :
        Finished(t) =>
            \A c \in tasks[t].disconnected :
                /\ ~Registered(c)
                /\ Audience(t) \ {c} \subseteq tasks[t].visited

(***************************************************************************)
(* Re-acquisition, the sweeper and expired leases                          *)
(***************************************************************************)
\* The last operation was an acquire by the user who held the lock of the
\* pending draft.
AcquireByHolder ==
    /\ last.op = "acquire"
    /\ pre[last.d].status = PENDING
    /\ pre[last.d].locked_by = last.user

\* C32 as stated: the acquire by the holder succeeds and its only effect on
\* the draft is that locked_at is refreshed to now.
C32_Original ==
    AcquireByHolder =>
        /\ last.result = OK
        /\ drafts[last.d] = [pre[last.d] EXCEPT !.locked_at = now]

\* C32 (amended): an acquire by the user who already holds the lock of a
\* pending draft succeeds; locked_by and status are unchanged, locked_at is
\* refreshed to now and the version is increased by 1, and nothing else
\* changes.
C32_ReacquireRefreshes ==
    AcquireByHolder =>
        /\ last.result = OK
        /\ drafts[last.d] = [pre[last.d] EXCEPT !.locked_at = now,
                                                !.version = @ + 1]

\* The holder re-acquires at a later instant than the first acquisition.
C32_Witness ==
    /\ AcquireByHolder
    /\ last.result = OK
    /\ pre[last.d].locked_at < now
    /\ drafts[last.d].locked_at = now

\* C33: after a run of the sweeper no pending draft retains a lock whose
\* locked_at is more than 30 minutes old, whether or not a draft had passed
\* its expires_at in that run.
C33_SweepReleasesStaleLocks ==
    last.op = "sweep" =>
        \A d \in DraftIds :
            ~(/\ drafts[d].status = PENDING
              /\ drafts[d].locked_by # NoUser
              /\ now - drafts[d].locked_at > LockLeaseSeconds)

\* C35: the sweeper is idempotent: a second run straight after a run changes
\* no draft's status, lock or version.
C35_SweeperIdempotent ==
    last.op = "sweep" => expire_stale_drafts(drafts, now) = drafts

\* A run that expired one draft and released the stale lock of another.
C35_Witness ==
    /\ last.op = "sweep"
    /\ \E d \in DraftIds : pre[d].status = PENDING /\ drafts[d].status = EXPIRED
    /\ \E e \in DraftIds : /\ drafts[e].status = PENDING
                           /\ pre[e].locked_by # NoUser
                           /\ drafts[e].locked_by = NoUser

\* C36: a waiter whose lease has expired no longer counts as the lock
\* holder: a confirm or reject by that waiter is refused until they
\* re-acquire the lock.  The lease is taken as expired only when more than 30
\* minutes have passed, the reading under which the acquisition by another
\* waiter succeeds (C4), so that the boundary instant plays no part.
C36_ExpiredLeaseCannotConfirm ==
    (/\ last.op \in {"confirm", "reject"}
     /\ pre[last.d].status = PENDING
     /\ pre[last.d].locked_by = last.user
     /\ pre[last.d].locked_by # NoUser
     /\ now - pre[last.d].locked_at > LockLeaseSeconds)
        => /\ last.result # OK
           /\ drafts[last.d] = pre[last.d]

\* C37: a ticket in status new that is not held can be fired explicitly: the
\* fire request that echoes its version succeeds and moves it to pending
\* with fired_at set and its pending line items fired.
C37_NewTicketCanBeFired ==
    [][(/\ tlast'.op = "fire"
        /\ Found(tickets, tlast'.id)
        /\ tickets[tlast'.id].status = NEW_TICKET
        /\ ~tickets[tlast'.id].is_held
        /\ ~tlast'.stale)
          => /\ tlast'.code = 200
             /\ tickets'[tlast'.id].status = PENDING
             /\ tickets'[tlast'.id].fired_at # NoTime
             /\ \A i \in DOMAIN lines[tlast'.id] :
                   lines[tlast'.id][i] = PENDING
                       => lines'[tlast'.id][i] = FIRED
      ]_vars

\* C38: a paid notification for a pending QR intent results in the intent
\* and its payment being completed, whatever notification of a non-final
\* status was received for the same external_reference before.
C38_PaidNotificationCompletes ==
    [][(/\ mlast'.op = "webhook"
        /\ mlast'.status \in {"paid", "closed"}
        /\ intent_of(intents, mlast'.id) # NoIntent
        /\ intents[intent_of(intents, mlast'.id)].status = PENDING)
          => LET i == intent_of(intents, mlast'.id)
             IN  /\ intents'[i].status = COMPLETED
                 /\ payment_of(payments', i) # NoPayment
                 /\ payments'[payment_of(payments', i)].status = COMPLETED
      ]_vars

\* C39: a broadcast is safe against concurrent registry changes: when a
\* connection connects to or disconnects from the station while the
\* broadcast is suspended on a write, the broadcast still completes without
\* error and has written the frame to every connection that stayed
\* registered throughout.
C39_BroadcastSurvivesRegistryChanges ==
    \A t \in Tasks :
        /\ tasks[t].pc # "raised"
        /\ tasks[t].pc = "done" => Audience(t) \subseteq tasks[t].visited

\* No draft is expired and locked.
ExpiredIsUnlocked ==
    \A d \in DraftIds :
        drafts[d].status = EXPIRED => drafts[d].locked_by = NoUser

\* C34: when a run of the sweeper and a lock acquisition race on a draft,
\* the draft never ends up expired with a non-null locked_by, and a lock
\* whose lease is running is never cleared by the sweep's lock pass.
C34_SweepAndAcquireResolved ==
    /\ ExpiredIsUnlocked
    /\ last.op = "sweep_release" =>
          \A d \in DraftIds :
              (/\ pre[d].status = PENDING
               /\ pre[d].locked_by # NoUser
               /\ ~LeaseExpired(pre[d], now))
                  => drafts[d].locked_by = pre[d].locked_by

(***************************************************************************)
(* Tenant isolation                                                        *)
(***************************************************************************)
\* The last request named a shift of another tenant than its caller's.
CrossTenantShift ==
    /\ mlast.op \in {"get_shift", CASH_DROP, TIP_PAYOUT, CASH_ADJUSTMENT}
    /\ mlast.id \in 1..Len(shifts)
    /\ users[mlast.user].tenant_id # shift_tenant_id(shifts[mlast.id])

\* C31: a request made in one tenant's context against a shift of another
\* tenant is refused (403) or sees nothing (404), so that it neither reads
\* the shift nor adds a cash drawer event to it.
C31_TenantIsolation == CrossTenantShift => mlast.code \in {403, 404}

\* The part of C31 that the read of a shift keeps.
C31_ReadsAreScoped ==
    (CrossTenantShift /\ mlast.op = "get_shift") => mlast.code = 403

(***************************************************************************)
(* Order of the events of one entity                                       *)
(***************************************************************************)
\* Where on connection c the frame of broadcast t was written.
Position(c, t) ==
    CHOOSE k \in 1..Len(sockets[c].frames) :
        sockets[c].frames[k] = Frame(t, tasks[t].station_id)

\* c was registered under the station when each of the two broadcasts began
\* and has been open since.
ConnectedThroughout(c) ==
    /\ sockets[c].state = "open"
    /\ \A t \in Tasks : c \in tasks[t].initial

====
